---- MODULE Spec2Model ----
(***************************************************************************)
(* The ATDW loader (scripts/load_atdw_to_database.py): AttributeRegistry   *)
(* and ATDWV2Loader writing through one psycopg2 connection.  The          *)
(* connection is modelled by two copies of the tables: `committed` (what   *)
(* any other session sees) and `pending` (the view of the loader's open    *)
(* transaction); commit copies pending to committed, rollback copies       *)
(* committed to pending.                                                   *)
(*                                                                         *)
(* Python strings that the code inspects character by character            *)
(* (attribute codes, communication entries) are sequences of one-character *)
(* strings; other values are tokens.                                       *)
(***************************************************************************)
EXTENDS Integers, Sequences, FiniteSets, TLC

\* ------------------------------------------------------------------ bounds
MaxProducts == 2      \* longest product list of the general scenarios
MaxBatch == 2         \* largest batch_size of the general scenarios

\* ------------------------------------------------------------------ tokens
NoneV == "<None>"         \* Python None
Missing == "<missing>"    \* key absent from a dict
NoneId == <<"<None>">>    \* attributeId: null (one pseudo-character)
MissingCode == <<"<missing>">>   \* a code whose key is absent from the dict

Truthy(v) == v # NoneV /\ v # Missing /\ v # ""

\* dict.get(key, default)
Get(v, default) == IF v = Missing THEN default ELSE v

\* str.strip() on the coordinate and status strings of the model
Strip(s) ==
    CASE s = " " -> ""
      [] s = " INACTIVE " -> "INACTIVE"
      [] OTHER -> s

\* float(s): the float (written "f:...") or "ValueError"
Float(s) ==
    CASE s = "-28.6" -> "f:-28.6"
      [] s = "153.6" -> "f:153.6"
      [] s = "-33.8" -> "f:-33.8"
      [] s = "151.2" -> "f:151.2"
      [] OTHER -> "ValueError"

IsNumeric(s) == s \in {"-28.6", "153.6", "-33.8", "151.2"}

\* Decimal(str(v)): the decimal (written "d:...") or "InvalidOperation"
\* (decimal.InvalidOperation is an ArithmeticError, neither ValueError nor
\* TypeError)
DecimalOf(s) ==
    CASE s = "100.00" -> "d:100.00"
      [] s = "250.50" -> "d:250.50"
      [] OTHER -> "InvalidOperation"

IsDecimal(s) == s \in {"100.00", "250.50"}

\* ------------------------------------------------- composite attribute code
\* str(attr_code) inside the f-string
StrOf(code) == IF code = NoneId THEN <<"N", "o", "n", "e">> ELSE code

RECURSIVE ReplaceSpace(_)
\* type_code.replace(' ', '_')
ReplaceSpace(s) ==
    IF s = <<>> THEN <<>>
    ELSE <<(IF Head(s) = " " THEN "_" ELSE Head(s))>> \o ReplaceSpace(Tail(s))

\* f"{type_code.replace(' ', '_')}__{attr_code}"
FullCode(attr) ==
    ReplaceSpace(attr.attributeTypeId) \o <<"_", "_">> \o StrOf(attr.attributeId)

\* ------------------------------------------------------------ input values
AttrPool == [attributeTypeId |-> <<"T">>, attributeId |-> <<"p", "o", "o", "l">>,
             attributeIdDescription |-> "Pool"]
AttrView == [attributeTypeId |-> <<"T">>, attributeId |-> <<"v", "i", "e", "w">>,
             attributeIdDescription |-> "View"]
AttrNull == [attributeTypeId |-> <<"T">>, attributeId |-> NoneId,
             attributeIdDescription |-> "Null"]

AddrPhysical == [addressType |-> "PHYSICAL", addressPurpose |-> "PHYSICAL",
                 geocodeGdaLatitude |-> "-28.6", geocodeGdaLongitude |-> "153.6"]
AddrPostal == [addressType |-> "POSTAL", addressPurpose |-> "POSTAL",
               geocodeGdaLatitude |-> NoneV, geocodeGdaLongitude |-> NoneV]
AddrSydney == [addressType |-> "PHYSICAL", addressPurpose |-> "PHYSICAL",
               geocodeGdaLatitude |-> "-33.8", geocodeGdaLongitude |-> "151.2"]
\* a POSTAL address whose latitude does not parse
AddrBadLat == [addressType |-> "POSTAL", addressPurpose |-> "POSTAL",
               geocodeGdaLatitude |-> "abc", geocodeGdaLongitude |-> "153.6"]
\* a PHYSICAL address whose latitude does not parse
AddrBadPhysical == [addressType |-> "PHYSICAL", addressPurpose |-> "PHYSICAL",
                    geocodeGdaLatitude |-> "abc", geocodeGdaLongitude |-> "153.6"]

\* communication entries: type code and value are character sequences
CommEmail == [attributeIdCommunication |-> <<"c", "a", "e", "m", "e", "n">>,
              communicationDetail |-> <<"a", "@", "b">>]
CommUrl == [attributeIdCommunication |-> <<"C", "A", "U", "R", "L">>,
            communicationDetail |-> <<"h", "t", "t", "p", ":", "x">>]
CommEmpty == [attributeIdCommunication |-> <<"P", "H", "N", "U", "M">>,
              communicationDetail |-> <<>>]

\* media entries; path stands for serverPath + imagePath
MediaOne == [imageUrl |-> "https://cdn/1.jpg", url |-> Missing, path |-> ""]
MediaTwo == [imageUrl |-> Missing, url |-> "https://cdn/2.jpg", path |-> ""]
MediaNoUrl == [imageUrl |-> Missing, url |-> Missing, path |-> ""]

TypeHotel == [productTypeId |-> "HOTEL"]
TypeMotel == [productTypeId |-> "MOTEL"]

ServiceRoom == [serviceName |-> "Room"]
ServiceTour == [serviceName |-> "Tour"]

RateOk == [priceFrom |-> "100.00"]
RateHigh == [priceFrom |-> "250.50"]
RateBad == [priceFrom |-> "POA"]

DealOk == [dealName |-> "Deal", dealPrice |-> "100.00"]
DealBad == [dealName |-> "Deal", dealPrice |-> "call us"]

\* A product detail as returned by ATDWClient.get_product
Detail(attrs, types, media, addrs, comms, servs, rates, deals) ==
    [attributes |-> attrs, verticalClassifications |-> types,
     multimedia |-> media, addresses |-> addrs, communication |-> comms,
     services |-> servs, rates |-> rates, deals |-> deals,
     attributeIdAtdwStatus |-> Missing]

DPlain == Detail(<<>>, <<>>, <<>>, <<>>, <<>>, <<>>, <<>>, <<>>)
DFull == Detail(<<AttrPool>>, <<TypeHotel>>, <<MediaOne>>, <<AddrPhysical>>,
                <<CommEmail>>, <<ServiceRoom>>, <<RateOk>>, <<DealOk>>)
DChanged == Detail(<<AttrPool, AttrView>>, <<TypeMotel>>, <<MediaTwo>>,
                   <<AddrSydney, AddrPostal>>, <<CommUrl>>, <<ServiceTour>>,
                   <<RateHigh>>, <<>>)
DView == Detail(<<AttrView>>, <<>>, <<>>, <<AddrPhysical>>, <<>>, <<>>, <<>>, <<>>)
DBadAttr == Detail(<<AttrPool, AttrNull>>, <<TypeHotel>>, <<>>, <<AddrPhysical>>,
                   <<>>, <<>>, <<>>, <<>>)
DBadProduct == Detail(<<>>, <<>>, <<>>, <<AddrBadPhysical>>, <<>>, <<>>, <<>>, <<>>)
DBadAddress == Detail(<<AttrPool>>, <<TypeHotel>>, <<MediaOne>>,
                      <<AddrPhysical, AddrBadLat>>, <<>>, <<>>, <<>>, <<>>)
DBadRate == Detail(<<>>, <<>>, <<>>, <<AddrPhysical>>, <<CommEmail>>,
                   <<ServiceRoom>>, <<RateOk, RateBad>>, <<DealOk>>)
DBadDeal == Detail(<<>>, <<>>, <<>>, <<>>, <<>>, <<>>, <<RateOk>>,
                   <<DealOk, DealBad>>)

GoodDetails == {DPlain, DFull, DChanged, DView}
BadDetails == {DBadAttr, DBadProduct, DBadAddress, DBadRate, DBadDeal}

\* What the API answers for one entry of the product list: fetch = "ok" with
\* a detail, "none" (get_product returns an empty answer) or "raise"
\* (get_product raises after its retries).
Entry(id, fetch, detail) == [productId |-> id, fetch |-> fetch, detail |-> detail]
\* ------------------------------------------------------------------ store
EmptyFn == [x \in {} |-> 0]

\* f with key k set to v (dict assignment, INSERT or UPDATE of a keyed row)
Put(f, k, v) == [x \in DOMAIN f \cup {k} |-> IF x = k THEN v ELSE f[x]]

\* The tables the loader writes.  products is keyed by atdw_id (source is
\* always 'ATDW'); product_attributes by code; every other table by the
\* product's surrogate product_id, holding [load, rows]: the rows of that
\* product and the number of the load that wrote them (bookkeeping of the
\* model, standing for the row versions of the database).
ChildTables == {"product_product_types", "product_attribute_values",
                "product_media", "product_addresses", "product_contacts",
                "product_services", "product_rates", "product_deals"}

EmptyStore ==
    [products |-> EmptyFn, product_attributes |-> EmptyFn,
     product_product_types |-> EmptyFn, product_attribute_values |-> EmptyFn,
     product_media |-> EmptyFn, product_addresses |-> EmptyFn,
     product_contacts |-> EmptyFn, product_services |-> EmptyFn,
     product_rates |-> EmptyFn, product_deals |-> EmptyFn]

VARIABLES
    runs,                \* input: what the API answers in each run of load_state
    failing_commits,     \* input: the ordinals of the conn.commit() calls that raise
    batch_size,          \* input: load_state's batch_size
    auto_accept,         \* AttributeRegistry.auto_accept
    known_attributes,    \* AttributeRegistry.known_attributes: code -> attribute_id
    unknown_attributes,  \* AttributeRegistry.unknown_attributes
    stats,               \* ATDWV2Loader.stats
    run,                 \* number of calls of load_state begun
    products,            \* load_state: the product list
    i,                   \* load_state: loop index (1-based)
    batch_count,         \* load_state: batch_count
    pc,                  \* position in load_state / _load_product
    details,             \* the detail being loaded
    pid,                 \* _load_product: surrogate id returned by _upsert_product
    committed,           \* the committed tables
    pending,             \* the tables as seen by the loader's transaction
    nextProductId,       \* surrogate ids handed out so far (never rolled back)
    nextAttributeId,     \* attribute_id sequence (never rolled back)
    commits,             \* number of conn.commit() calls made
    loadLog,             \* history: one record per call of _load_product
    returned,            \* history: the committed tables at each return of load_state
    discoveries,         \* history: one record per batch of new attributes surfaced
    register_result,     \* history: what register_attributes returned last
    sessions,            \* two loaders on one store: the state of each process
    attribute_rows,      \* two loaders on one store: the row versions of product_attributes
    call,                \* a call of a helper function: its arguments and results
    client               \* ATDWClient: the position and locals of a request

vars == <<runs, failing_commits, batch_size, auto_accept, known_attributes,
          unknown_attributes, stats, run, products, i, batch_count, pc, details,
          pid, committed, pending, nextProductId, nextAttributeId, commits,
          loadLog, returned, discoveries,
          register_result, sessions, attribute_rows, call, client>>

inputVars == <<runs, failing_commits, batch_size, auto_accept>>

registryVars == <<register_result, sessions, attribute_rows>>

callVars == <<call, client>>
\* ------------------------------------------------------- mapping of a detail
\* dict.get(key): None for an absent key
GetN(v) == Get(v, NoneV)

Min(S) == CHOOSE x \in S : \A y \in S : x <= y

\* A loop over a list whose entry k raises when raises[k]: the number of
\* the entry at which the loop ends with an exception, 0 if it does not
FirstRaise(raises) ==
    LET bad == {k \in 1..Len(raises) : raises[k]}
    IN  IF bad = {} THEN 0 ELSE Min(bad)

\* the entries that loop processes before it raises
Processed(list, raises) ==
    IF FirstRaise(raises) = 0 THEN list
    ELSE SubSeq(list, 1, FirstRaise(raises) - 1)

RECURSIVE PhysicalScan(_, _, _)
\* _upsert_product, first loop: the PHYSICAL address with both coordinates
PhysicalScan(addrs, lat, lng) ==
    IF addrs = <<>> THEN [lat |-> lat, lng |-> lng, raised |-> FALSE]
    ELSE LET addr == Head(addrs)
             l == GetN(addr.geocodeGdaLatitude)
             g == GetN(addr.geocodeGdaLongitude)
         IN  IF GetN(addr.addressType) = "PHYSICAL"
             THEN IF Truthy(l) /\ Truthy(g)
                  THEN IF IsNumeric(l) /\ IsNumeric(g)
                       THEN [lat |-> Float(l), lng |-> Float(g), raised |-> FALSE]
                       ELSE [lat |-> l, lng |-> g, raised |-> TRUE]
                  ELSE PhysicalScan(Tail(addrs), l, g)
             ELSE PhysicalScan(Tail(addrs), lat, lng)

RECURSIVE AnyScan(_, _, _)
\* _upsert_product, fallback loop: any address with both coordinates
AnyScan(addrs, lat, lng) ==
    IF addrs = <<>> THEN [lat |-> lat, lng |-> lng, raised |-> FALSE]
    ELSE LET addr == Head(addrs)
             l == GetN(addr.geocodeGdaLatitude)
             g == GetN(addr.geocodeGdaLongitude)
         IN  IF Truthy(l) /\ Truthy(g)
             THEN IF IsNumeric(l) /\ IsNumeric(g)
                  THEN [lat |-> Float(l), lng |-> Float(g), raised |-> FALSE]
                  ELSE [lat |-> l, lng |-> g, raised |-> TRUE]
             ELSE AnyScan(Tail(addrs), l, g)

\* _upsert_product: the coordinates passed to upsert_product
Coordinates(addresses) ==
    LET first == PhysicalScan(addresses, NoneV, NoneV)
    IN  IF first.raised THEN first
        ELSE IF first.lat = NoneV \/ first.lng = NoneV
             THEN AnyScan(addresses, first.lat, first.lng)
             ELSE first

\* variant: a product without a status is inactive
IsActiveUnlessEmpty(product) ==
    LET status_field == Strip(Get(product.attributeIdAtdwStatus, ""))
    IN  IF status_field # "" THEN status_field # "INACTIVE" ELSE FALSE

\* _upsert_product: is_active
IsActive(product) ==
    LET status_field == Strip(Get(product.attributeIdAtdwStatus, ""))
    IN  IF status_field # "" THEN status_field # "INACTIVE" ELSE TRUE

\* _upsert_product_types: the type codes linked, without repetition
\* (ON CONFLICT DO NOTHING)
RECURSIVE TypeRows(_, _)
TypeRows(verticals, acc) ==
    IF verticals = <<>> THEN acc
    ELSE LET type_code == GetN(Head(verticals).productTypeId)
         IN  IF ~Truthy(type_code) \/ \E k \in 1..Len(acc) : acc[k] = type_code
             THEN TypeRows(Tail(verticals), acc)
             ELSE TypeRows(Tail(verticals), Append(acc, type_code))

\* _upsert_media: media.get('imageUrl') or media.get('url') or (paths)
MediaUrl(media) ==
    IF Truthy(GetN(media.imageUrl)) THEN media.imageUrl
    ELSE IF Truthy(GetN(media.url)) THEN media.url
    ELSE media.path

\* _upsert_media: media_list
MediaList(multimedia) ==
    LET numbered == [k \in 1..Len(multimedia) |-> [i |-> k, media |-> multimedia[k]]]
        kept == SelectSeq(numbered, LAMBDA e : Truthy(MediaUrl(e.media)))
    IN  [k \in 1..Len(kept) |->
            [url |-> MediaUrl(kept[k].media), ordinal |-> kept[k].i,
             role |-> IF kept[k].i = 1 THEN "hero" ELSE "gallery"]]

\* _upsert_addresses: one coordinate of the row
AddressCoordinate(v) ==
    IF Truthy(GetN(v)) /\ Strip(v) # "" THEN Float(v) ELSE NoneV

AddressCoordinateRaises(v) ==
    Truthy(GetN(v)) /\ Strip(v) # "" /\ ~IsNumeric(v)

AddressRaises(addr) ==
    \/ AddressCoordinateRaises(addr.geocodeGdaLatitude)
    \/ AddressCoordinateRaises(addr.geocodeGdaLongitude)

AddressesRaise(addresses) ==
    [k \in 1..Len(addresses) |-> AddressRaises(addresses[k])]

AddressRow(addr) ==
    [kind |-> IF Get(addr.addressPurpose, "PHYSICAL") = "PHYSICAL"
              THEN "physical" ELSE "postal",
     latitude |-> AddressCoordinate(addr.geocodeGdaLatitude),
     longitude |-> AddressCoordinate(addr.geocodeGdaLongitude)]

\* str.upper() on one character
UpperChar(c) ==
    CASE c = "a" -> "A" [] c = "b" -> "B" [] c = "c" -> "C" [] c = "d" -> "D"
      [] c = "e" -> "E" [] c = "f" -> "F" [] c = "g" -> "G" [] c = "h" -> "H"
      [] c = "i" -> "I" [] c = "j" -> "J" [] c = "k" -> "K" [] c = "l" -> "L"
      [] c = "m" -> "M" [] c = "n" -> "N" [] c = "o" -> "O" [] c = "p" -> "P"
      [] c = "q" -> "Q" [] c = "r" -> "R" [] c = "s" -> "S" [] c = "t" -> "T"
      [] c = "u" -> "U" [] c = "v" -> "V" [] c = "w" -> "W" [] c = "x" -> "X"
      [] c = "y" -> "Y" [] c = "z" -> "Z"
      [] OTHER -> c

Upper(s) == [k \in 1..Len(s) |-> UpperChar(s[k])]

\* sub in s
Contains(s, sub) ==
    \E k \in 0..(Len(s) - Len(sub)) : SubSeq(s, k + 1, k + Len(sub)) = sub

StartsWith(s, prefix) ==
    Len(s) >= Len(prefix) /\ SubSeq(s, 1, Len(prefix)) = prefix

\* variant: the shape of the value is looked at before the type code
CommKindShapeFirst(comm) ==
    LET comm_type == Upper(IF comm.attributeIdCommunication = MissingCode
                           THEN <<>> ELSE comm.attributeIdCommunication)
        value == comm.communicationDetail
    IN  IF Contains(value, <<"@">>) THEN "email"
        ELSE IF StartsWith(value, <<"h", "t", "t", "p">>) THEN "website"
        ELSE IF Contains(comm_type, <<"E", "M", "E", "N">>) THEN "email"
        ELSE IF \/ Contains(comm_type, <<"W", "E", "B", "A", "D", "D", "R">>)
                \/ Contains(comm_type, <<"W", "E", "B", "S", "I", "T", "E">>)
             THEN "website"
        ELSE IF \/ Contains(comm_type, <<"B", "O", "O", "K", "U", "R", "L">>)
                \/ Contains(comm_type, <<"B", "O", "O", "K", "I", "N", "G">>)
             THEN "booking"
        ELSE "phone"

\* _upsert_communication: kind of one entry
CommKind(comm) ==
    LET comm_type == Upper(IF comm.attributeIdCommunication = MissingCode
                           THEN <<>> ELSE comm.attributeIdCommunication)
        value == comm.communicationDetail
    IN  IF Contains(comm_type, <<"E", "M", "E", "N">>) THEN "email"
        ELSE IF \/ Contains(comm_type, <<"P", "H", "N", "U", "M">>)
                \/ Contains(comm_type, <<"P", "H", "O", "N", "E">>) THEN "phone"
        ELSE IF \/ Contains(comm_type, <<"W", "E", "B", "A", "D", "D", "R">>)
                \/ Contains(comm_type, <<"W", "E", "B", "S", "I", "T", "E">>)
             THEN "website"
        ELSE IF \/ Contains(comm_type, <<"B", "O", "O", "K", "U", "R", "L">>)
                \/ Contains(comm_type, <<"B", "O", "O", "K", "I", "N", "G">>)
             THEN "booking"
        ELSE IF Contains(value, <<"@">>) THEN "email"
        ELSE IF StartsWith(value, <<"h", "t", "t", "p">>) THEN "website"
        ELSE "phone"

\* variant: an entry without a value is inserted too
ContactRowsKeepEmpty(comm_list) ==
    [k \in 1..Len(comm_list) |->
        [kind |-> CommKind(comm_list[k]),
         value |-> comm_list[k].communicationDetail]]

\* _upsert_communication: the rows inserted
ContactRows(comm_list) ==
    LET kept == SelectSeq(comm_list, LAMBDA comm : comm.communicationDetail # <<>>)
    IN  [k \in 1..Len(kept) |->
            [kind |-> CommKind(kept[k]), value |-> kept[k].communicationDetail]]

ServiceRow(service) == [name |-> GetN(service.serviceName)]

\* _upsert_services: the rows inserted
ServiceRows(services) == [k \in 1..Len(services) |-> ServiceRow(services[k])]

\* _upsert_rates
RateRaises(rate) ==
    Truthy(GetN(rate.priceFrom)) /\ ~IsDecimal(rate.priceFrom)

RatesRaise(rates) == [k \in 1..Len(rates) |-> RateRaises(rates[k])]

RateRow(rate) ==
    [price |-> IF Truthy(GetN(rate.priceFrom)) THEN DecimalOf(rate.priceFrom)
               ELSE NoneV,
     price_from |-> GetN(rate.priceFrom)]

\* _upsert_deals
DealRaises(deal) ==
    Truthy(GetN(deal.dealPrice)) /\ ~IsDecimal(deal.dealPrice)

DealsRaise(deals) == [k \in 1..Len(deals) |-> DealRaises(deals[k])]

DealRow(deal) ==
    [title |-> GetN(deal.dealName),
     price |-> IF Truthy(GetN(deal.dealPrice)) THEN DecimalOf(deal.dealPrice)
               ELSE NoneV]

\* the rows inserted by the loops that can raise
AddressRows(addresses) ==
    LET done == Processed(addresses, AddressesRaise(addresses))
    IN  [k \in 1..Len(done) |-> AddressRow(done[k])]

RateRows(rates) ==
    LET done == Processed(rates, RatesRaise(rates))
    IN  [k \in 1..Len(done) |-> RateRow(done[k])]

DealRows(deals) ==
    LET done == Processed(deals, DealsRaise(deals))
    IN  [k \in 1..Len(done) |-> DealRow(done[k])]
\* ------------------------------------------------------ AttributeRegistry
FacetKeywords ==
    {<<"P", "O", "O", "L">>, <<"G", "Y", "M">>, <<"S", "P", "A">>,
     <<"W", "I", "F", "I">>, <<"P", "A", "R", "K", "I", "N", "G">>,
     <<"C", "A", "R", "P", "A", "R", "K">>,
     <<"D", "I", "S", "A", "S", "S", "I", "S", "T">>,
     <<"R", "E", "S", "T", "A", "U", "R", "A", "N", "T">>, <<"B", "A", "R">>,
     <<"C", "A", "F", "E">>, <<"B", "R", "E", "A", "K", "F", "A", "S", "T">>,
     <<"D", "I", "N", "N", "E", "R">>, <<"E", "C", "O", "T", "O", "U", "R">>,
     <<"S", "U", "S", "T", "A", "I", "N", "A", "B", "L", "E">>,
     <<"F", "A", "M", "I", "L", "Y", "R", "U", "N">>, <<"P", "E", "T">>}

\* _load_known_attributes
LoadKnownAttributes(store) ==
    [code \in DOMAIN store.product_attributes |->
        store.product_attributes[code].attribute_id]

RECURSIVE NewAttributesIgnoreUnknown(_, _, _)
\* variant: the loop does not look at unknown_attributes
NewAttributesIgnoreUnknown(attributes, known, unknown) ==
    IF attributes = <<>> THEN <<>>
    ELSE LET attr == Head(attributes)
             full_code == FullCode(attr)
         IN  IF full_code \notin DOMAIN known
             THEN <<[code |-> full_code,
                     attr_code |-> attr.attributeId,
                     label |-> Get(attr.attributeIdDescription, attr.attributeId)]>>
                  \o NewAttributesIgnoreUnknown(Tail(attributes), known,
                                                unknown \cup {full_code})
             ELSE NewAttributesIgnoreUnknown(Tail(attributes), known, unknown)

RECURSIVE NewAttributes(_, _, _)
\* register_attributes, the loop: the codes neither known nor flagged
\* unknown, in order; each is flagged unknown as it is found
NewAttributes(attributes, known, unknown) ==
    IF attributes = <<>> THEN <<>>
    ELSE LET attr == Head(attributes)
             full_code == FullCode(attr)
         IN  IF full_code \notin DOMAIN known /\ full_code \notin unknown
             THEN <<[code |-> full_code,
                     attr_code |-> attr.attributeId,
                     label |-> Get(attr.attributeIdDescription, attr.attributeId)]>>
                  \o NewAttributes(Tail(attributes), known, unknown \cup {full_code})
             ELSE NewAttributes(Tail(attributes), known, unknown)

CodesOf(new_attributes) == {new_attributes[k].code : k \in 1..Len(new_attributes)}

\* _add_attributes: attr['attr_code'].upper() raises on None
AddRaises(attr) == attr.attr_code = NoneId

AddsRaise(attributes) == [k \in 1..Len(attributes) |-> AddRaises(attributes[k])]

RECURSIVE AddAttributesNoCache(_, _)
\* variant: known_attributes is not updated
AddAttributesNoCache(attributes, st) ==
    IF attributes = <<>> THEN st
    ELSE LET attr == Head(attributes)
             is_facet == \E kw \in FacetKeywords : Contains(Upper(attr.attr_code), kw)
             exists == attr.code \in DOMAIN st.store.product_attributes
             attr_id == IF exists
                        THEN st.store.product_attributes[attr.code].attribute_id
                        ELSE st.next + 1
             row == [attribute_id |-> attr_id, label |-> attr.label,
                     facet |-> is_facet]
         IN  AddAttributesNoCache(Tail(attributes),
                [store |-> [st.store EXCEPT !.product_attributes =
                                Put(@, attr.code, row)],
                 known |-> st.known,
                 unknown |-> st.unknown \ {attr.code},
                 next |-> IF exists THEN st.next ELSE st.next + 1])

RECURSIVE AddAttributesNoDiscard(_, _)
\* variant: the code stays in unknown_attributes
AddAttributesNoDiscard(attributes, st) ==
    IF attributes = <<>> THEN st
    ELSE LET attr == Head(attributes)
             is_facet == \E kw \in FacetKeywords : Contains(Upper(attr.attr_code), kw)
             exists == attr.code \in DOMAIN st.store.product_attributes
             attr_id == IF exists
                        THEN st.store.product_attributes[attr.code].attribute_id
                        ELSE st.next + 1
             row == [attribute_id |-> attr_id, label |-> attr.label,
                     facet |-> is_facet]
         IN  AddAttributesNoDiscard(Tail(attributes),
                [store |-> [st.store EXCEPT !.product_attributes =
                                Put(@, attr.code, row)],
                 known |-> Put(st.known, attr.code, attr_id),
                 unknown |-> st.unknown,
                 next |-> IF exists THEN st.next ELSE st.next + 1])

RECURSIVE AddAttributes(_, _)
\* _add_attributes, the loop over the entries that are processed: st is
\* [store, known, unknown, next]
AddAttributes(attributes, st) ==
    IF attributes = <<>> THEN st
    ELSE LET attr == Head(attributes)
             is_facet == \E kw \in FacetKeywords : Contains(Upper(attr.attr_code), kw)
             exists == attr.code \in DOMAIN st.store.product_attributes
             attr_id == IF exists
                        THEN st.store.product_attributes[attr.code].attribute_id
                        ELSE st.next + 1
             row == [attribute_id |-> attr_id, label |-> attr.label,
                     facet |-> is_facet]
         IN  AddAttributes(Tail(attributes),
                [store |-> [st.store EXCEPT !.product_attributes =
                                Put(@, attr.code, row)],
                 known |-> Put(st.known, attr.code, attr_id),
                 unknown |-> st.unknown \ {attr.code},
                 next |-> IF exists THEN st.next ELSE st.next + 1])
\* ------------------------------------------------------------- connection
\* the conn.commit() call about to be made raises
CommitFails == (commits + 1) \in failing_commits

\* the load (call of _load_product) in progress
load == Len(loadLog)

\* variant: the DELETE has no WHERE clause
ReplaceRowsDeleteAll(store, table, id, rows) ==
    [store EXCEPT ![table] = Put(EmptyFn, id, [load |-> load, rows |-> rows])]

\* DELETE FROM table WHERE product_id = id, then the INSERTs of rows
ReplaceRows(store, table, id, rows) ==
    [store EXCEPT ![table] = Put(@, id, [load |-> load, rows |-> rows])]

\* the rows of a store written by load number n
WritesOf(store, n) ==
    [table \in ChildTables \cup {"products"} |->
        {<<k, store[table][k]>> : k \in {x \in DOMAIN store[table] :
                                           store[table][x].load = n}}]

NoWrites == [table \in ChildTables \cup {"products"} |-> {}]

\* ------------------------------------------------------------- load_state
\* load_state, lines 163-194: search_products, the early return on an empty
\* list, batch_count = 0
LoadState ==
    /\ pc = "idle"
    /\ run < Len(runs)
    /\ run' = run + 1
    /\ products' = runs[run + 1]
    /\ i' = 1
    /\ batch_count' = 0
    /\ pc' = IF runs[run + 1] = <<>> THEN "idle" ELSE "loop"
    /\ returned' = IF runs[run + 1] = <<>> THEN Append(returned, committed)
                   ELSE returned
    /\ UNCHANGED <<inputVars, known_attributes, unknown_attributes, stats,
                   details, pid, committed, pending, nextProductId,
                   nextAttributeId, commits, loadLog, discoveries,
                   registryVars, callVars>>

\* load_state, lines 195-216 and 227: get_product for the next product; an
\* empty answer is counted and skipped, an exception goes to the handler of
\* load_state; otherwise _load_product begins (line 244)
Fetch ==
    /\ pc = "loop"
    /\ i <= Len(products)
    /\ LET e == products[i]
       IN  CASE e.fetch = "none" ->
                  /\ stats' = [stats EXCEPT !.errors = @ + 1]
                  /\ i' = i + 1
                  /\ pc' = "loop"
                  /\ UNCHANGED <<details, loadLog>>
             [] e.fetch = "raise" ->
                  /\ pc' = "ls_except"
                  /\ UNCHANGED <<stats, i, details, loadLog>>
             [] OTHER ->
                  /\ details' = [f \in DOMAIN e.detail \cup {"productId"} |->
                                    IF f = "productId" THEN e.productId
                                    ELSE e.detail[f]]
                  /\ stats' = [stats EXCEPT !.products_processed = @ + 1]
                  /\ loadLog' = Append(loadLog,
                        [productId |-> e.productId, run |-> run,
                         status |-> "loading", written |-> NoWrites])
                  /\ pc' = "register"
                  /\ UNCHANGED i
    /\ UNCHANGED <<inputVars, known_attributes, unknown_attributes, run,
                   products, batch_count, pid, committed, pending,
                   nextProductId, nextAttributeId, commits, returned,
                   discoveries,
                   registryVars, callVars>>

\* variant: the batch is committed one product late
LoadedCommitsLate ==
    /\ pc = "loaded"
    /\ loadLog' = [loadLog EXCEPT ![load].status = "loaded",
                                  ![load].written = WritesOf(pending, load)]
    /\ IF batch_count + 1 > batch_size
       THEN /\ commits' = commits + 1
            /\ IF CommitFails
               THEN /\ pc' = "ls_except"
                    /\ batch_count' = batch_count + 1
                    /\ UNCHANGED <<committed, i>>
               ELSE /\ committed' = pending
                    /\ batch_count' = 0
                    /\ i' = i + 1
                    /\ pc' = "loop"
       ELSE /\ batch_count' = batch_count + 1
            /\ i' = i + 1
            /\ pc' = "loop"
            /\ UNCHANGED <<committed, commits>>
    /\ UNCHANGED <<inputVars, known_attributes, unknown_attributes, stats, run,
                   products, details, pid, pending, nextProductId,
                   nextAttributeId, returned, discoveries,
                   registryVars, callVars>>

\* load_state, lines 220-225: _load_product returned; batch_count += 1 and
\* the batch commit (an exception of commit goes to the handler)
Loaded ==
    /\ pc = "loaded"
    /\ loadLog' = [loadLog EXCEPT ![load].status = "loaded",
                                  ![load].written = WritesOf(pending, load)]
    /\ IF batch_count + 1 >= batch_size
       THEN /\ commits' = commits + 1
            /\ IF CommitFails
               THEN /\ pc' = "ls_except"
                    /\ batch_count' = batch_count + 1
                    /\ UNCHANGED <<committed, i>>
               ELSE /\ committed' = pending
                    /\ batch_count' = 0
                    /\ i' = i + 1
                    /\ pc' = "loop"
       ELSE /\ batch_count' = batch_count + 1
            /\ i' = i + 1
            /\ pc' = "loop"
            /\ UNCHANGED <<committed, commits>>
    /\ UNCHANGED <<inputVars, known_attributes, unknown_attributes, stats, run,
                   products, details, pid, pending, nextProductId,
                   nextAttributeId, returned, discoveries,
                   registryVars, callVars>>

\* _load_product, lines 292-295: count the error and re-raise
LoadProductExcept ==
    /\ pc = "lp_except"
    /\ stats' = [stats EXCEPT !.errors = @ + 1]
    /\ loadLog' = [loadLog EXCEPT ![load].status = "failed",
                                  ![load].written = WritesOf(pending, load)]
    /\ pc' = "ls_except"
    /\ UNCHANGED <<inputVars, known_attributes, unknown_attributes, run,
                   products, i, batch_count, details, pid, committed, pending,
                   nextProductId, nextAttributeId, commits, returned,
                   discoveries,
                   registryVars, callVars>>

\* variant: the handler does not roll back
LoadStateExceptNoRollback ==
    /\ pc = "ls_except"
    /\ stats' = [stats EXCEPT !.errors = @ + 1]
    /\ batch_count' = 0
    /\ i' = i + 1
    /\ pc' = "loop"
    /\ UNCHANGED <<inputVars, known_attributes, unknown_attributes, run,
                   products, details, pid, committed, pending, nextProductId,
                   nextAttributeId, commits, loadLog, returned, discoveries,
                   registryVars, callVars>>

\* load_state, lines 227-232: count the error, roll back, reset batch_count
LoadStateExcept ==
    /\ pc = "ls_except"
    /\ stats' = [stats EXCEPT !.errors = @ + 1]
    /\ pending' = committed
    /\ batch_count' = 0
    /\ i' = i + 1
    /\ pc' = "loop"
    /\ UNCHANGED <<inputVars, known_attributes, unknown_attributes, run,
                   products, details, pid, committed, nextProductId,
                   nextAttributeId, commits, loadLog, returned, discoveries,
                   registryVars, callVars>>

\* variant: load_state returns without the final commit
FinalCommitSkipped ==
    /\ pc = "loop"
    /\ i > Len(products)
    /\ pc' = "idle"
    /\ returned' = Append(returned, committed)
    /\ UNCHANGED <<committed, pending, commits>>
    /\ UNCHANGED <<inputVars, known_attributes, unknown_attributes, stats, run,
                   products, i, batch_count, details, pid, nextProductId,
                   nextAttributeId, loadLog, discoveries,
                   registryVars, callVars>>

\* load_state, lines 234-239: the final commit; an exception of commit
\* leaves load_state and ends the process (the connection is dropped)
FinalCommit ==
    /\ pc = "loop"
    /\ i > Len(products)
    /\ IF batch_count > 0
       THEN /\ commits' = commits + 1
            /\ IF CommitFails
               THEN /\ pending' = committed
                    /\ pc' = "crashed"
                    /\ UNCHANGED <<committed, returned>>
               ELSE /\ committed' = pending
                    /\ pc' = "idle"
                    /\ returned' = Append(returned, pending)
                    /\ UNCHANGED pending
       ELSE /\ pc' = "idle"
            /\ returned' = Append(returned, committed)
            /\ UNCHANGED <<committed, pending, commits>>
    /\ UNCHANGED <<inputVars, known_attributes, unknown_attributes, stats, run,
                   products, i, batch_count, details, pid, nextProductId,
                   nextAttributeId, loadLog, discoveries,
                   registryVars, callVars>>
\* ----------------------------------------------------------- _load_product
loaderVars == <<run, products, i, batch_count>>

\* _load_product, lines 247-250, with register_attributes and
\* _add_attributes: the new codes are flagged unknown; when there are some
\* they are registered (auto_accept, or the operator answers yes) or left
\* (the operator answers no).  _add_attributes writes each definition and
\* updates known_attributes row by row, then commits.
\* register_result is what register_attributes returned ("True", "False"),
\* "raised" when it raised instead; it is not called for an empty list.
RegisterAttributes ==
    /\ pc = "register"
    /\ LET attributes == details.attributes
           new_attributes == NewAttributes(attributes, known_attributes,
                                           unknown_attributes)
           flagged == unknown_attributes \cup CodesOf(new_attributes)
       IN  IF new_attributes = <<>>
           THEN /\ pc' = "upsert_product"
                /\ register_result' = IF attributes = <<>> THEN register_result
                                       ELSE "True"
                /\ UNCHANGED <<known_attributes, unknown_attributes, committed,
                               pending, nextAttributeId, commits, discoveries>>
           ELSE \E response \in IF auto_accept THEN {"auto"} ELSE {"yes", "no"} :
                  /\ discoveries' = Append(discoveries,
                        [load |-> load, codes |-> CodesOf(new_attributes),
                         response |-> response,
                         outcome |->
                            IF response = "no" THEN "declined"
                            ELSE IF FirstRaise(AddsRaise(new_attributes)) # 0
                                    \/ CommitFails
                                 THEN "raised" ELSE "registered"])
                  /\ register_result' =
                        IF response = "no" THEN "False"
                        ELSE IF FirstRaise(AddsRaise(new_attributes)) # 0
                                \/ CommitFails
                             THEN "raised" ELSE "True"
                  /\ IF response = "no"
                     THEN /\ unknown_attributes' = flagged
                          /\ pc' = "upsert_product"
                          /\ UNCHANGED <<known_attributes, committed, pending,
                                         nextAttributeId, commits>>
                     ELSE LET raises == FirstRaise(AddsRaise(new_attributes)) # 0
                              st == AddAttributes(
                                      Processed(new_attributes,
                                                AddsRaise(new_attributes)),
                                      [store |-> pending,
                                       known |-> known_attributes,
                                       unknown |-> flagged,
                                       next |-> nextAttributeId])
                          IN  /\ known_attributes' = st.known
                              /\ unknown_attributes' = st.unknown
                              /\ pending' = st.store
                              /\ nextAttributeId' = st.next
                              /\ IF raises
                                 THEN /\ pc' = "lp_except"
                                      /\ UNCHANGED <<committed, commits>>
                                 ELSE /\ commits' = commits + 1
                                      /\ IF CommitFails
                                         THEN /\ pc' = "lp_except"
                                              /\ UNCHANGED committed
                                         ELSE /\ committed' = st.store
                                              /\ pc' = "upsert_product"
    /\ UNCHANGED <<inputVars, loaderVars, stats, details, pid, nextProductId,
                   loadLog, returned, sessions, attribute_rows, callVars>>

\* _load_product line 253 with _upsert_product: the coordinates, is_active
\* and the upsert by (source, atdw_id) that returns the surrogate id;
\* commit_inside tells whether _upsert_product commits (it does not: line 364)
UpsertProductThen(commit_inside) ==
    /\ pc = "upsert_product"
    /\ LET c == Coordinates(details.addresses)
           atdw_id == details.productId
           exists == atdw_id \in DOMAIN pending.products
           product_id == IF exists THEN pending.products[atdw_id].product_id
                         ELSE nextProductId + 1
       IN  IF c.raised
           THEN /\ pc' = "lp_except"
                /\ UNCHANGED <<pid, pending, committed, nextProductId>>
           ELSE /\ pending' = [pending EXCEPT !.products = Put(@, atdw_id,
                                  [product_id |-> product_id,
                                   is_active |-> IsActive(details),
                                   latitude |-> c.lat, longitude |-> c.lng,
                                   raw_source |-> details, load |-> load])]
                /\ committed' = IF commit_inside THEN pending' ELSE committed
                /\ nextProductId' = IF exists THEN nextProductId
                                    ELSE nextProductId + 1
                /\ pid' = product_id
                /\ pc' = "upsert_product_types"
    /\ UNCHANGED <<inputVars, loaderVars, known_attributes, unknown_attributes,
                   stats, details, nextAttributeId, commits, loadLog, returned,
                   discoveries,
                   registryVars, callVars>>

\* variant: _upsert_product still commits
UpsertProductCommits == UpsertProductThen(TRUE)

UpsertProduct == UpsertProductThen(FALSE)

\* upsert_product_attributes(product_id, attrs_dict), a function of the
\* database: the assignments of the product are replaced by attrs_dict
UpsertProductAttributesFn(store, id, attrs_dict) ==
    ReplaceRows(store, "product_attribute_values", id, attrs_dict)

\* upsert_product_media(product_id, media_list), a function of the
\* database: the media of the product are replaced by media_list
UpsertProductMediaFn(store, id, media_list) ==
    ReplaceRows(store, "product_media", id, media_list)

\* what a step of _load_product leaves alone besides pending, pc and stats
stepFrame == <<inputVars, loaderVars, known_attributes, unknown_attributes,
               details, pid, committed, nextProductId, nextAttributeId,
               commits, loadLog, returned, discoveries,
                   registryVars, callVars>>

\* _load_product line 256 with _upsert_product_types
UpsertProductTypes ==
    /\ pc = "upsert_product_types"
    /\ pending' = IF details.verticalClassifications = <<>> THEN pending
                  ELSE ReplaceRows(pending, "product_product_types", pid,
                                   TypeRows(details.verticalClassifications, <<>>))
    /\ pc' = "upsert_attributes"
    /\ UNCHANGED <<stats, stepFrame>>

RECURSIVE AttrsDictUnfiltered(_, _, _)
\* variant: every code of the list is assigned
AttrsDictUnfiltered(attributes, known, acc) ==
    IF attributes = <<>> THEN acc
    ELSE LET full_code == FullCode(Head(attributes))
         IN  IF ~\E k \in 1..Len(acc) : acc[k].code = full_code
             THEN AttrsDictUnfiltered(Tail(attributes), known,
                            Append(acc, [code |-> full_code, value |-> TRUE]))
             ELSE AttrsDictUnfiltered(Tail(attributes), known, acc)

\* _upsert_attributes: attrs_dict, the codes of the list that are known
RECURSIVE AttrsDict(_, _, _)
AttrsDict(attributes, known, acc) ==
    IF attributes = <<>> THEN acc
    ELSE LET full_code == FullCode(Head(attributes))
         IN  IF full_code \in DOMAIN known
                /\ ~\E k \in 1..Len(acc) : acc[k].code = full_code
             THEN AttrsDict(Tail(attributes), known,
                            Append(acc, [code |-> full_code, value |-> TRUE]))
             ELSE AttrsDict(Tail(attributes), known, acc)

\* _load_product lines 259-260 with _upsert_attributes
UpsertAttributes ==
    /\ pc = "upsert_attributes"
    /\ LET attrs_dict == AttrsDict(details.attributes, known_attributes, <<>>)
       IN  IF details.attributes = <<>> \/ attrs_dict = <<>>
           THEN UNCHANGED <<pending, stats>>
           ELSE /\ pending' = UpsertProductAttributesFn(pending, pid, attrs_dict)
                /\ stats' = [stats EXCEPT !.attributes_added = @ + Len(attrs_dict)]
    /\ pc' = "upsert_media"
    /\ UNCHANGED stepFrame

\* _load_product lines 263-265 with _upsert_media
UpsertMedia ==
    /\ pc = "upsert_media"
    /\ LET media_list == MediaList(details.multimedia)
       IN  IF details.multimedia = <<>> \/ media_list = <<>>
           THEN UNCHANGED <<pending, stats>>
           ELSE /\ pending' = UpsertProductMediaFn(pending, pid, media_list)
                /\ stats' = [stats EXCEPT !.media_added = @ + Len(media_list)]
    /\ pc' = "upsert_addresses"
    /\ UNCHANGED stepFrame

\* _load_product lines 268-270 with _upsert_addresses: skipped when the
\* list is empty; otherwise the addresses of the product are deleted and the
\* entries inserted one by one until one raises
UpsertAddresses ==
    /\ pc = "upsert_addresses"
    /\ IF details.addresses = <<>>
       THEN /\ pc' = "upsert_communication"
            /\ UNCHANGED pending
       ELSE /\ pending' = ReplaceRows(pending, "product_addresses", pid,
                                      AddressRows(details.addresses))
            /\ pc' = IF FirstRaise(AddressesRaise(details.addresses)) # 0
                     THEN "lp_except" ELSE "upsert_communication"
    /\ UNCHANGED <<stats, stepFrame>>

\* _load_product lines 273-275 with _upsert_communication
UpsertCommunication ==
    /\ pc = "upsert_communication"
    /\ pending' = IF details.communication = <<>> THEN pending
                  ELSE ReplaceRows(pending, "product_contacts", pid,
                                   ContactRows(details.communication))
    /\ pc' = "upsert_services"
    /\ UNCHANGED <<stats, stepFrame>>

\* _load_product lines 278-280 with _upsert_services
UpsertServices ==
    /\ pc = "upsert_services"
    /\ pending' = IF details.services = <<>> THEN pending
                  ELSE ReplaceRows(pending, "product_services", pid,
                                   ServiceRows(details.services))
    /\ pc' = "upsert_rates"
    /\ UNCHANGED <<stats, stepFrame>>

\* _load_product lines 283-285 with _upsert_rates
UpsertRates ==
    /\ pc = "upsert_rates"
    /\ IF details.rates = <<>>
       THEN /\ pc' = "upsert_deals"
            /\ UNCHANGED pending
       ELSE /\ pending' = ReplaceRows(pending, "product_rates", pid,
                                      RateRows(details.rates))
            /\ pc' = IF FirstRaise(RatesRaise(details.rates)) # 0
                     THEN "lp_except" ELSE "upsert_deals"
    /\ UNCHANGED <<stats, stepFrame>>

\* _load_product lines 288-290 with _upsert_deals
UpsertDeals ==
    /\ pc = "upsert_deals"
    /\ IF details.deals = <<>>
       THEN /\ pc' = "loaded"
            /\ UNCHANGED pending
       ELSE /\ pending' = ReplaceRows(pending, "product_deals", pid,
                                      DealRows(details.deals))
            /\ pc' = IF FirstRaise(DealsRaise(details.deals)) # 0
                     THEN "lp_except" ELSE "loaded"
    /\ UNCHANGED <<stats, stepFrame>>

\* ------------------------------------------------------------------- Init
\* The answers of the API for one product
Answers ==
    {[fetch |-> "ok", detail |-> d] : d \in GoodDetails \cup BadDetails}
    \cup {[fetch |-> "none", detail |-> DPlain],
          [fetch |-> "raise", detail |-> DPlain]}

\* The product list of a run: products 1..n, each with its answer
ListOf(answers) ==
    [k \in 1..Len(answers) |->
        Entry(k, answers[k].fetch, answers[k].detail)]

Uniform(n, d) == [k \in 1..n |-> Entry(k, "ok", d)]

\* ATDWV2Loader.__init__ and AttributeRegistry.__init__ on a store
Constructed(store) ==
    /\ committed = store
    /\ pending = store
    /\ known_attributes = LoadKnownAttributes(store)
    /\ unknown_attributes = {}
    /\ stats = [products_processed |-> 0, products_inserted |-> 0,
                products_updated |-> 0, products_skipped |-> 0,
                attributes_added |-> 0, media_added |-> 0, errors |-> 0]
    /\ run = 0
    /\ products = <<>>
    /\ i = 1
    /\ batch_count = 0
    /\ pc = "idle"
    /\ details = DPlain
    /\ pid = 0
    /\ nextProductId = 0
    /\ nextAttributeId = Cardinality(DOMAIN store.product_attributes)
    /\ commits = 0
    /\ loadLog = <<>>
    /\ returned = <<>>
    /\ discoveries = <<>>
    /\ register_result = "None"

\* a store in which the definition of AttrPool is already registered
SeededStore ==
    [EmptyStore EXCEPT !.product_attributes =
        Put(EmptyFn, FullCode(AttrPool),
            [attribute_id |-> 1, label |-> "Pool", facet |-> TRUE])]

\* One run of load_state over up to MaxProducts products with any answers,
\* with and without a failure of the first commit
InitOneRun ==
    /\ \E n \in 0..MaxProducts : \E answers \in [1..n -> Answers] :
            runs = <<ListOf(answers)>>
    /\ batch_size \in 1..MaxBatch
    /\ auto_accept \in BOOLEAN
    /\ failing_commits \in {{}, {1}}
    /\ Constructed(EmptyStore)

\* The answers of the two-run scenarios
RerunAnswers ==
    {[fetch |-> "ok", detail |-> d] : d \in {DPlain, DFull, DBadAttr, DBadRate}}

\* Two runs of load_state by the same loader over up to MaxProducts
\* products: the second run gets the same answers, or finds every detail
\* changed
InitTwoRuns ==
    /\ \E n \in 1..MaxProducts : \E answers \in [1..n -> RerunAnswers] :
         \E second \in {ListOf(answers), Uniform(n, DPlain),
                         Uniform(n, DChanged)} :
            runs = <<ListOf(answers), second>>
    /\ batch_size \in 1..MaxBatch
    /\ auto_accept \in BOOLEAN
    /\ failing_commits = {}
    /\ \E store \in {EmptyStore, SeededStore} : Constructed(store)

\* One run over seven products with batch_size = 3 in which the fifth
\* product raises while it is loaded
InitSeven ==
    /\ \E d \in GoodDetails : \E bad \in BadDetails :
          runs = <<[k \in 1..7 |-> Entry(k, "ok", IF k = 5 THEN bad ELSE d)]>>
    /\ batch_size = 3
    /\ auto_accept \in BOOLEAN
    /\ failing_commits = {}
    /\ Constructed(EmptyStore)

\* ------------------------------------------------ one product, many details
MaxEntries == 2       \* longest address and media list of the one-product scenarios

\* a POSTAL address with both coordinates
AddrPostalBoth == [addressType |-> "POSTAL", addressPurpose |-> "POSTAL",
                   geocodeGdaLatitude |-> "-33.8", geocodeGdaLongitude |-> "151.2"]
\* a PHYSICAL address with a latitude and no longitude
AddrLatOnly == [addressType |-> "PHYSICAL", addressPurpose |-> "PHYSICAL",
                geocodeGdaLatitude |-> "-28.6", geocodeGdaLongitude |-> NoneV]
\* a POSTAL address with a longitude and no latitude
AddrLngOnly == [addressType |-> "POSTAL", addressPurpose |-> "POSTAL",
                geocodeGdaLatitude |-> NoneV, geocodeGdaLongitude |-> "151.2"]

AddressPool == {AddrPhysical, AddrSydney, AddrPostal, AddrPostalBoth,
                AddrLatOnly, AddrLngOnly}

MediaPool == {MediaOne, MediaTwo, MediaNoUrl}

\* the lists of at most MaxEntries entries of a pool
ListsOver(pool) == UNION {[1..n -> pool] : n \in 0..MaxEntries}

\* type codes of communication entries: the vendor's codes of each family,
\* codes of no family, a code of two families, lower case, no code
CommTypes ==
    {<<"C", "A", "E", "M", "E", "N", "Q">>, <<"C", "A", "P", "H", "N", "U", "M">>,
     <<"p", "h", "o", "n", "e">>, <<"C", "A", "W", "E", "B", "A", "D", "D", "R">>,
     <<"W", "E", "B", "S", "I", "T", "E">>, <<"C", "A", "B", "O", "O", "K", "U", "R", "L">>,
     <<"b", "o", "o", "k", "i", "n", "g">>, <<"C", "A", "U", "R", "L">>,
     <<"P", "H", "O", "N", "E", "E", "M", "E", "N">>, <<>>, MissingCode}

\* values of communication entries: an address, two URLs, a number, a
\* URL of another scheme, nothing
CommValues ==
    {<<"a", "@", "b">>, <<"h", "t", "t", "p", ":", "x">>,
     <<"h", "t", "t", "p", "s", ":", "x">>, <<"0", "4", "1", "2">>,
     <<"f", "t", "p", ":", "x">>, <<"h", "t", "t", "p", ":", "a", "@", "b">>, <<>>}

CommEntries ==
    {[attributeIdCommunication |-> t, communicationDetail |-> v] :
        t \in CommTypes, v \in CommValues}

\* one entry, or one entry before or after an entry without a value
CommLists ==
    {<<c>> : c \in CommEntries}
    \cup {<<c, CommEmpty>> : c \in CommEntries}
    \cup {<<CommEmpty, c>> : c \in CommEntries}
    \cup {<<c, CommUrl>> : c \in CommEntries}

StatusValues == {Missing, "", " ", "INACTIVE", " INACTIVE ", "ACTIVE", "inactive"}

OneProductDetails ==
    {[DPlain EXCEPT !.addresses = a] : a \in ListsOver(AddressPool)}
    \cup {[DPlain EXCEPT !.multimedia = m] : m \in ListsOver(MediaPool)}
    \cup {[DPlain EXCEPT !.communication = c] : c \in CommLists}
    \cup {[DPlain EXCEPT !.attributeIdAtdwStatus = v] : v \in StatusValues}

\* One run over one product, for every detail of OneProductDetails
InitOneProduct ==
    /\ \E d \in OneProductDetails : runs = << <<Entry(1, "ok", d)>> >>
    /\ batch_size = 1
    /\ auto_accept = TRUE
    /\ failing_commits = {}
    /\ Constructed(EmptyStore)

\* the loader is the only process on the store, and no helper function or
\* request of the client is followed apart from it
SingleLoader == sessions = <<>> /\ attribute_rows = {} /\ call = <<>> /\ client = <<>>

Init ==
    (InitOneRun \/ InitTwoRuns \/ InitSeven \/ InitOneProduct) /\ SingleLoader

Next ==
    \/ LoadState
    \/ Fetch
    \/ RegisterAttributes
    \/ UpsertProduct
    \/ UpsertProductTypes
    \/ UpsertAttributes
    \/ UpsertMedia
    \/ UpsertAddresses
    \/ UpsertCommunication
    \/ UpsertServices
    \/ UpsertRates
    \/ UpsertDeals
    \/ Loaded
    \/ LoadProductExcept
    \/ LoadStateExcept
    \/ FinalCommit

Spec == Init /\ [][Next]_vars
\* ------------------------------------------- two loaders on the same store
\* Two processes run the script against one database.  Each has its own
\* AttributeRegistry and its own connection; what they share is the table
\* product_attributes (unique on code) and the sequence of attribute_id.
\* attribute_rows holds the row versions of the table: by = 0 for a
\* committed version, by = s for a version written by the open transaction
\* of session s.  Only the registry path of each loader is followed here,
\* one SQL statement per step.
SessionIds == {1, 2}

AttrPoolRenamed == [attributeTypeId |-> <<"T">>,
                    attributeId |-> <<"p", "o", "o", "l">>,
                    attributeIdDescription |-> "Swimming pool"]

\* the attribute lists of the products a session loads, in order
SessionInputs ==
    {<< <<AttrPool>> >>,
     << <<AttrPool, AttrView>> >>,
     << <<AttrView, AttrPoolRenamed>> >>,
     << <<AttrPool, AttrNull>> >>,
     << <<AttrPool>>, <<AttrView>> >>,
     << <<AttrPoolRenamed, AttrNull>>, <<AttrView>> >>}

CommittedRows == {r \in attribute_rows : r.by = 0}

RowsBy(s) == {r \in attribute_rows : r.by = s}

\* SELECT attribute_id, code FROM product_attributes, as a dict
KnownFrom(rows) ==
    [code \in {r.code : r \in rows} |->
        (CHOOSE r \in rows : r.code = code).attribute_id]

\* the statement of session s on code waits for the transaction of another
\* session that holds an uncommitted version of that row
Blocked(s, code) ==
    \E r \in attribute_rows : r.code = code /\ r.by \notin {0, s}

\* variant: INSERT without the ON CONFLICT clause into a table without the
\* unique index
InsertDefinition(rows, s, attr, next) ==
    [rows |-> rows \cup {[code |-> attr.code, attribute_id |-> next + 1,
                          label |-> attr.label,
                          facet |-> \E kw \in FacetKeywords :
                                        Contains(Upper(attr.attr_code), kw),
                          by |-> s]},
     attr_id |-> next + 1,
     next |-> next + 1]

\* INSERT INTO product_attributes ... ON CONFLICT (code) DO UPDATE SET label,
\* data_type, facet, description RETURNING attribute_id, run by session s
UpsertDefinition(rows, s, attr, next) ==
    LET mine == {r \in rows : r.code = attr.code /\ r.by = s}
        stored == {r \in rows : r.code = attr.code /\ r.by = 0}
        conflict == mine \cup stored # {}
        attr_id == IF mine # {} THEN (CHOOSE r \in mine : TRUE).attribute_id
                   ELSE IF stored # {}
                        THEN (CHOOSE r \in stored : TRUE).attribute_id
                        ELSE next + 1
    IN  [rows |-> (rows \ mine) \cup
                    {[code |-> attr.code, attribute_id |-> attr_id,
                      label |-> attr.label,
                      facet |-> \E kw \in FacetKeywords :
                                    Contains(Upper(attr.attr_code), kw),
                      by |-> s]},
         attr_id |-> attr_id,
         next |-> IF conflict THEN next ELSE next + 1]

\* conn.commit() of session s: its versions replace the committed ones
CommitRows(rows, s) ==
    LET mine == {r \in rows : r.by = s}
    IN  {r \in rows : r.by # s /\ ~(r.by = 0 /\ \E m \in mine : m.code = r.code)}
        \cup {[m EXCEPT !.by = 0] : m \in mine}

\* conn.rollback() of session s
RollbackRows(rows, s) == {r \in rows : r.by # s}

mainVars == <<inputVars, known_attributes, unknown_attributes, stats, run,
              products, i, batch_count, pc, details, pid, committed, pending,
              nextProductId, commits, loadLog, returned, discoveries,
              register_result>>

\* AttributeRegistry.__init__ of session s: known_attributes is read from
\* the committed table
Construct(s) ==
    /\ sessions[s].pc = "new"
    /\ sessions' = [sessions EXCEPT ![s].pc = "idle",
                                    ![s].known = KnownFrom(CommittedRows)]
    /\ UNCHANGED <<mainVars, callVars, nextAttributeId, attribute_rows>>

\* register_attributes of session s on the list of its next product, up to
\* the call of _add_attributes: the new codes are flagged unknown and
\* surfaced; the operator accepts (or --yes) or declines
Discover(s) ==
    /\ sessions[s].pc = "idle"
    /\ sessions[s].calls # <<>>
    /\ LET new_attributes == NewAttributes(Head(sessions[s].calls),
                                           sessions[s].known,
                                           sessions[s].unknown)
           flagged == sessions[s].unknown \cup CodesOf(new_attributes)
       IN  IF new_attributes = <<>>
           THEN sessions' = [sessions EXCEPT ![s].calls = Tail(@)]
           ELSE \E response \in {"yes", "no"} :
                  sessions' = [sessions EXCEPT
                      ![s].calls = Tail(@),
                      ![s].unknown = flagged,
                      ![s].queue = IF response = "yes" THEN new_attributes
                                   ELSE <<>>,
                      ![s].pc = IF response = "yes" THEN "adding" ELSE "idle"]
    /\ UNCHANGED <<mainVars, callVars, nextAttributeId, attribute_rows>>

\* _add_attributes of session s, lines 117-139, for one attribute: the
\* statement waits while another transaction holds the row; the cache is
\* updated with the identifier returned
Insert(s) ==
    /\ sessions[s].pc = "adding"
    /\ sessions[s].queue # <<>>
    /\ LET attr == Head(sessions[s].queue)
       IN  IF AddRaises(attr)
           THEN /\ sessions' = [sessions EXCEPT ![s].pc = "raised"]
                /\ UNCHANGED <<nextAttributeId, attribute_rows>>
           ELSE /\ ~Blocked(s, attr.code)
                /\ LET done == UpsertDefinition(attribute_rows, s, attr,
                                                nextAttributeId)
                   IN  /\ attribute_rows' = done.rows
                       /\ nextAttributeId' = done.next
                       /\ sessions' = [sessions EXCEPT
                              ![s].queue = Tail(@),
                              ![s].known = Put(@, attr.code, done.attr_id),
                              ![s].unknown = @ \ {attr.code},
                              ![s].added = @ \cup {attr.code}]
    /\ UNCHANGED <<mainVars, callVars>>

\* _add_attributes of session s, line 141: conn.commit()
Commit(s) ==
    /\ sessions[s].pc = "adding"
    /\ sessions[s].queue = <<>>
    /\ attribute_rows' = CommitRows(attribute_rows, s)
    /\ sessions' = [sessions EXCEPT ![s].pc = "idle"]
    /\ UNCHANGED <<mainVars, callVars, nextAttributeId>>

\* two sessions wait for each other's row: the database ends the statement
\* of one of them with an error
DeadlockDetected(s) ==
    /\ sessions[s].pc = "adding"
    /\ sessions[s].queue # <<>>
    /\ ~AddRaises(Head(sessions[s].queue))
    /\ \E t \in SessionIds \ {s} :
          /\ \E r \in RowsBy(t) : r.code = Head(sessions[s].queue).code
          /\ sessions[t].pc = "adding"
          /\ sessions[t].queue # <<>>
          /\ ~AddRaises(Head(sessions[t].queue))
          /\ \E r \in RowsBy(s) : r.code = Head(sessions[t].queue).code
    /\ sessions' = [sessions EXCEPT ![s].pc = "raised"]
    /\ UNCHANGED <<mainVars, callVars, nextAttributeId, attribute_rows>>

\* the exception of session s reaches the handler of load_state (lines
\* 227-232): conn.rollback(), and the loop goes on with the next product
Rollback(s) ==
    /\ sessions[s].pc = "raised"
    /\ attribute_rows' = RollbackRows(attribute_rows, s)
    /\ sessions' = [sessions EXCEPT ![s].pc = "idle", ![s].queue = <<>>]
    /\ UNCHANGED <<mainVars, callVars, nextAttributeId>>

\* a store in which the definition of AttrPool is already committed
SeededRows ==
    {[code |-> FullCode(AttrPool), attribute_id |-> 1, label |-> "Pool",
      facet |-> TRUE, by |-> 0]}

\* Two loaders started on the same store, each with the attribute lists of
\* its products
InitTwoLoaders ==
    /\ runs = <<>>
    /\ batch_size = 1
    /\ auto_accept = FALSE
    /\ failing_commits = {}
    /\ \E seeded \in BOOLEAN :
          /\ Constructed(IF seeded THEN SeededStore ELSE EmptyStore)
          /\ attribute_rows = IF seeded THEN SeededRows ELSE {}
    /\ \E inputs \in [SessionIds -> SessionInputs] :
          sessions = [s \in SessionIds |->
                        [pc |-> "new", calls |-> inputs[s], queue |-> <<>>,
                         known |-> EmptyFn, unknown |-> {}, added |-> {}]]
    /\ call = <<>>
    /\ client = <<>>

NextTwoLoaders ==
    \E s \in SessionIds :
        \/ Construct(s)
        \/ Discover(s)
        \/ Insert(s)
        \/ Commit(s)
        \/ DeadlockDetected(s)
        \/ Rollback(s)

SpecTwoLoaders == InitTwoLoaders /\ [][NextTwoLoaders]_vars
\* ------------------------------------------------------ compute_content_hash
\* A JSON value, as json.loads returns it: a string (s: its characters), a
\* number (s: its digits), null, a list (e: its elements), or a dict (k: its
\* keys in insertion order, as Python dicts keep them, e: their values).
JStr(chars) == [t |-> "str", s |-> chars, k |-> <<>>, e |-> <<>>]

JNum(digits) == [t |-> "num", s |-> digits, k |-> <<>>, e |-> <<>>]

JNull == [t |-> "null", s |-> <<>>, k |-> <<>>, e |-> <<>>]

JList(elements) == [t |-> "list", s |-> <<>>, k |-> <<>>, e |-> elements]

JItem(key, value) == [key |-> key, val |-> value]

JDict(items) ==
    [t |-> "dict", s |-> <<>>, k |-> [n \in 1..Len(items) |-> items[n].key],
     e |-> [n \in 1..Len(items) |-> items[n].val]]

\* obj.items()
Items(obj) == [n \in 1..Len(obj.k) |-> JItem(obj.k[n], obj.e[n])]

\* ord(c) of the characters of the texts compared here
CodePoint(c) ==
    CASE c = " " -> 32 [] c = "\"" -> 34 [] c = "," -> 44 [] c = "1" -> 49
      [] c = "2" -> 50 [] c = ":" -> 58 [] c = "[" -> 91 [] c = "]" -> 93
      [] c = "a" -> 97 [] c = "b" -> 98 [] c = "c" -> 99 [] c = "l" -> 108
      [] c = "n" -> 110 [] c = "u" -> 117 [] c = "x" -> 120 [] c = "y" -> 121
      [] c = "z" -> 122 [] c = "{" -> 123 [] c = "}" -> 125

\* a < b for two Python strings
RECURSIVE LessText(_, _)
LessText(a, b) ==
    IF b = <<>> THEN FALSE
    ELSE IF a = <<>> THEN TRUE
    ELSE IF a[1] = b[1] THEN LessText(Tail(a), Tail(b))
    ELSE CodePoint(a[1]) < CodePoint(b[1])

\* sorted() by key: an entry [key, val] is placed behind the entries whose key is
\* not greater (the sort is stable)
RECURSIVE InsertSorted(_, _)
InsertSorted(sorted, e) ==
    IF sorted = <<>> THEN <<e>>
    ELSE IF LessText(e.key, sorted[1].key) THEN <<e>> \o sorted
    ELSE <<sorted[1]>> \o InsertSorted(Tail(sorted), e)

RECURSIVE SortByKey(_)
SortByKey(entries) ==
    IF entries = <<>> THEN <<>>
    ELSE InsertSorted(SortByKey(SubSeq(entries, 1, Len(entries) - 1)),
                      entries[Len(entries)])

\* ', '.join(texts)
RECURSIVE Join(_)
Join(texts) ==
    IF texts = <<>> THEN <<>>
    ELSE IF Len(texts) = 1 THEN texts[1]
    ELSE texts[1] \o <<",", " ">> \o Join(Tail(texts))

\* json.dumps(x, sort_keys=True), with the default separators; the keys of
\* a dict are distinct, so that sorting its items compares keys only
RECURSIVE Dumps(_)
Dumps(x) ==
    CASE x.t = "str" -> <<"\"">> \o x.s \o <<"\"">>
      [] x.t = "num" -> x.s
      [] x.t = "null" -> <<"n", "u", "l", "l">>
      [] x.t = "list" ->
            <<"[">> \o Join([n \in 1..Len(x.e) |-> Dumps(x.e[n])]) \o <<"]">>
      [] x.t = "dict" ->
            LET items == SortByKey(Items(x))
            IN  <<"{">>
                \o Join([n \in 1..Len(items) |->
                            <<"\"">> \o items[n].key \o <<"\"", ":", " ">>
                            \o Dumps(items[n].val)])
                \o <<"}">>

\* variant: the list is left in the order received
NotSorted(elements) == elements

\* sorted(elements, key=lambda x: json.dumps(x, sort_keys=True))
SortedByDumps(elements) ==
    LET entries == SortByKey([n \in 1..Len(elements) |->
                                 JItem(Dumps(elements[n]), elements[n])])
    IN  [n \in 1..Len(entries) |-> entries[n].val]

\* an empty string, list or dict, or null
IsEmpty(x) == x.s = <<>> /\ x.e = <<>>

\* variant: an empty scalar is canonicalized to null
RECURSIVE sort_nested_null_empty(_)
sort_nested_null_empty(obj) ==
    CASE obj.t = "dict" ->
            LET items == SortByKey(Items(obj))
            IN  JDict([n \in 1..Len(items) |->
                          JItem(items[n].key, sort_nested_null_empty(items[n].val))])
      [] obj.t = "list" ->
            LET nested == [n \in 1..Len(obj.e) |-> sort_nested_null_empty(obj.e[n])]
            IN  IF obj.e # <<>> /\ obj.e[1].t = "dict"
                THEN JList(SortedByDumps(nested))
                ELSE JList(nested)
      [] OTHER -> IF IsEmpty(obj) THEN JNull ELSE obj

\* variant: the items of a dict whose value is empty are left out
RECURSIVE sort_nested_skip_empty(_)
sort_nested_skip_empty(obj) ==
    CASE obj.t = "dict" ->
            LET items == SortByKey(SelectSeq(Items(obj),
                                             LAMBDA it : ~IsEmpty(it.val)))
            IN  JDict([n \in 1..Len(items) |->
                          JItem(items[n].key, sort_nested_skip_empty(items[n].val))])
      [] obj.t = "list" ->
            LET nested == [n \in 1..Len(obj.e) |-> sort_nested_skip_empty(obj.e[n])]
            IN  IF obj.e # <<>> /\ obj.e[1].t = "dict"
                THEN JList(SortedByDumps(nested))
                ELSE JList(nested)
      [] OTHER -> obj

\* variant: every list is sorted
RECURSIVE sort_nested_every_list(_)
sort_nested_every_list(obj) ==
    CASE obj.t = "dict" ->
            LET items == SortByKey(Items(obj))
            IN  JDict([n \in 1..Len(items) |->
                          JItem(items[n].key, sort_nested_every_list(items[n].val))])
      [] obj.t = "list" ->
            LET nested == [n \in 1..Len(obj.e) |-> sort_nested_every_list(obj.e[n])]
            IN  JList(SortedByDumps(nested))
      [] OTHER -> obj

\* sort_nested, lines 29-41: the items of a dict by key (sorted(obj.items())),
\* the elements of a list whose first element is a dict by their JSON text,
\* any other list and any scalar as they are
RECURSIVE sort_nested(_)
sort_nested(obj) ==
    CASE obj.t = "dict" ->
            LET items == SortByKey(Items(obj))
            IN  JDict([n \in 1..Len(items) |->
                          JItem(items[n].key, sort_nested(items[n].val))])
      [] obj.t = "list" ->
            LET nested == [n \in 1..Len(obj.e) |-> sort_nested(obj.e[n])]
            IN  IF obj.e # <<>> /\ obj.e[1].t = "dict"
                THEN JList(SortedByDumps(nested))
                ELSE JList(nested)
      [] OTHER -> obj

\* hashlib.sha256(text).hexdigest(): the digest is not computed; it stands
\* for its text, two texts having one digest only when they are equal
Sha256(text) == <<"sha256", text>>

\* compute_content_hash, lines 18-47.  The copy of line 26 (json.loads of
\* json.dumps) returns a JSON value as it is.
compute_content_hash(product) == Sha256(Dumps(sort_nested(product)))
\* ------------------------------------------- the records given to the hash
MaxItems == 2         \* longest list of the records hashed

KeyA == <<"a">>

KeyB == <<"b">>

Keys == {KeyA, KeyB}

StrX == JStr(<<"x">>)

StrY == JStr(<<"y">>)

Scalars == {StrX, StrY, JStr(<<>>), JNum(<<"1">>), JNull}

\* the dicts of at most two items with values of a set, in every order of
\* their keys
DictsOver(values) ==
    {JDict(<<>>)}
    \cup {JDict(<<JItem(key, v)>>) : key \in Keys, v \in values}
    \cup {JDict(<<JItem(KeyA, v), JItem(KeyB, w)>>) : v \in values, w \in values}
    \cup {JDict(<<JItem(KeyB, v), JItem(KeyA, w)>>) : v \in values, w \in values}

\* the lists of at most MaxItems elements of a set
JListsOver(values) ==
    {JList(elements) : elements \in UNION {[1..n -> values] : n \in 0..MaxItems}}

\* objects of scalar fields
LeafObjects ==
    DictsOver({StrX}) \cup {JDict(<<JItem(KeyA, StrY)>>), JDict(<<JItem(KeyB, JStr(<<>>))>>)}

\* lists of scalars, lists of objects, and lists of both
FlatLists ==
    JListsOver({StrX, StrY, JDict(<<JItem(KeyA, StrX)>>),
                JDict(<<JItem(KeyA, StrY)>>),
                JDict(<<JItem(KeyB, StrX), JItem(KeyA, StrX)>>)})

\* lists of two objects that each hold a list of two objects
DeepLists ==
    LET inner == {JList(<<JDict(<<JItem(KeyA, v)>>), JDict(<<JItem(KeyA, w)>>)>>) :
                     v \in {StrX, StrY}, w \in {StrX, StrY}}
    IN  {JList(<<JDict(<<JItem(KeyB, l)>>), JDict(<<JItem(KeyB, m)>>)>>) :
            l \in inner, m \in inner}

FieldValues == Scalars \cup FlatLists \cup LeafObjects \cup DeepLists

\* the products hashed: one field of any value, alone or before or after
\* a scalar field
Records ==
    {JDict(<<JItem(key, v)>>) : key \in Keys, v \in FieldValues}
    \cup {JDict(<<JItem(KeyA, v), JItem(KeyB, w)>>) :
             v \in FieldValues, w \in {StrX, JStr(<<>>)}}
    \cup {JDict(<<JItem(KeyB, w), JItem(KeyA, v)>>) :
             v \in FieldValues, w \in {StrX, JStr(<<>>)}}

IsScalar(x) == x.t \in {"str", "num", "null"}

\* a list of objects: every element is a dict
IsObjectList(x) ==
    x.t = "list" /\ x.e # <<>> /\ \A n \in 1..Len(x.e) : x.e[n].t = "dict"

\* a list of scalars with distinct elements
IsScalarList(x) ==
    /\ x.t = "list"
    /\ \A n \in 1..Len(x.e) : IsScalar(x.e[n])
    /\ \A n, m \in 1..Len(x.e) : x.e[n] = x.e[m] => n = m

Orders(n) ==
    {p \in [1..n -> 1..n] : \A a, b \in 1..n : p[a] = p[b] => a = b}

\* x with its child number n replaced by y
WithChild(x, n, y) == [x EXCEPT !.e[n] = y]

\* x with its children in the order p
Reordered(x, p) ==
    [x EXCEPT !.e = [n \in 1..Len(x.e) |-> x.e[p[n]]],
              !.k = IF x.t = "dict" THEN [n \in 1..Len(x.k) |-> x.k[p[n]]]
                    ELSE <<>>]

\* what the upstream may send for x when it reorders the keys of objects
\* and the elements of lists of objects, at any depth
RECURSIVE Reorderings(_)
Reorderings(x) ==
    IF x.e = <<>> THEN {x}
    ELSE LET n == Len(x.e)
             children == {c \in [1..n -> UNION {Reorderings(x.e[m]) : m \in 1..n}] :
                             \A m \in 1..n : c[m] \in Reorderings(x.e[m])}
             orders == IF x.t = "dict" \/ IsObjectList(x) THEN Orders(n)
                       ELSE {[m \in 1..n |-> m]}
         IN  {Reordered([x EXCEPT !.e = c], p) : c \in children, p \in orders}

\* x with the value of one scalar, at any depth, replaced by another
RECURSIVE ScalarChanges(_)
ScalarChanges(x) ==
    IF IsScalar(x) THEN Scalars \ {x}
    ELSE UNION {{WithChild(x, n, y) : y \in ScalarChanges(x.e[n])} :
                   n \in 1..Len(x.e)}

\* x without item number n
WithoutItem(x, n) ==
    LET keep == [m \in 1..(Len(x.e) - 1) |-> IF m < n THEN m ELSE m + 1]
    IN  [x EXCEPT !.e = [m \in 1..(Len(x.e) - 1) |-> x.e[keep[m]]],
                  !.k = [m \in 1..(Len(x.e) - 1) |-> x.k[keep[m]]]]

\* x without one field, of an object at any depth, that was present and
\* empty (an empty string, list or object, or null)
RECURSIVE EmptyFieldDrops(_)
EmptyFieldDrops(x) ==
    (IF x.t = "dict"
     THEN {WithoutItem(x, n) : n \in {m \in 1..Len(x.e) : IsEmpty(x.e[m])}}
     ELSE {})
    \cup UNION {{WithChild(x, n, y) : y \in EmptyFieldDrops(x.e[n])} :
                   n \in 1..Len(x.e)}

\* x with the elements of one list of distinct scalars, at any depth, in
\* another order
RECURSIVE ScalarListReorders(_)
ScalarListReorders(x) ==
    (IF IsScalarList(x)
     THEN {Reordered(x, p) : p \in Orders(Len(x.e))} \ {x}
     ELSE {})
    \cup UNION {{WithChild(x, n, y) : y \in ScalarListReorders(x.e[n])} :
                   n \in 1..Len(x.e)}

\* the variables of the loaders and of their store
loaderSide == <<mainVars, nextAttributeId, sessions, attribute_rows>>

\* The loader is not running: only the helper under study is followed
NoLoader ==
    /\ runs = <<>>
    /\ batch_size = 1
    /\ auto_accept = FALSE
    /\ failing_commits = {}
    /\ Constructed(EmptyStore)
    /\ sessions = <<>>
    /\ attribute_rows = {}

\* A product is hashed, the upstream sends it again (the same, reordered,
\* with one scalar changed, without an empty field, or with a list of
\* scalars reordered), and what it sent is hashed.
\* call: first is the product hashed first, product the one to hash next,
\* change what the upstream did, hashes the digests so far.
InitHash ==
    /\ NoLoader
    /\ client = <<>>
    /\ \E r \in Records :
          call = [pc |-> "hash", first |-> r, product |-> r, change |-> "none",
                  hashes |-> <<>>]

ComputeContentHash ==
    /\ call.pc = "hash"
    /\ call' = [call EXCEPT
                   !.hashes = Append(@, compute_content_hash(call.product)),
                   !.pc = IF call.hashes = <<>> THEN "sent" ELSE "done"]
    /\ UNCHANGED <<loaderSide, client>>

SendsAs(change, variants) ==
    /\ call.pc = "sent"
    /\ \E r \in variants :
          call' = [call EXCEPT !.product = r, !.change = change, !.pc = "hash"]
    /\ UNCHANGED <<loaderSide, client>>

SendsSame == SendsAs("same", {call.product})

SendsReordered == SendsAs("reordered", Reorderings(call.product) \ {call.product})

SendsScalarChanged == SendsAs("scalar", ScalarChanges(call.product))

SendsWithoutEmptyField == SendsAs("dropped", EmptyFieldDrops(call.product))

SendsScalarsReordered == SendsAs("scalars", ScalarListReorders(call.product))

NextHash ==
    \/ ComputeContentHash
    \/ SendsSame
    \/ SendsReordered
    \/ SendsScalarChanged
    \/ SendsWithoutEmptyField
    \/ SendsScalarsReordered

SpecHash == InitHash /\ [][NextHash]_vars
\* ---------------------------------------------- normalize_phone and others
\* None where a str is expected (one pseudo-character)
NoneStr == <<"<None>">>

\* c.isdigit()
IsDigit(c) == c \in {"0", "1", "2", "3", "4", "5", "6", "7", "8", "9"}

\* ''.join(c for c in phone if c.isdigit())
DigitsOf(text) == SelectSeq(text, IsDigit)

\* variant: a leading 61 is kept
normalize_phone_keeps_61(phone) ==
    IF phone = NoneStr \/ phone = <<>> THEN NoneStr
    ELSE LET digits == DigitsOf(phone)
         IN  IF Len(digits) < 9 THEN NoneStr
             ELSE <<"+", "6", "1">>
                  \o (IF StartsWith(digits, <<"0">>) THEN Tail(digits) ELSE digits)

\* normalize_phone, lines 50-78
normalize_phone(phone) ==
    IF phone = NoneStr \/ phone = <<>> THEN NoneStr
    ELSE LET digits == DigitsOf(phone)
         IN  IF Len(digits) < 9 THEN NoneStr
             ELSE LET national == IF StartsWith(digits, <<"6", "1">>)
                                  THEN SubSeq(digits, 3, Len(digits))
                                  ELSE digits
                      significant == IF StartsWith(national, <<"0">>)
                                     THEN Tail(national)
                                     ELSE national
                  IN  <<"+", "6", "1">> \o significant

\* str.lower() on one character
LowerChar(c) ==
    CASE c = "A" -> "a" [] c = "B" -> "b" [] c = "C" -> "c" [] c = "D" -> "d"
      [] c = "E" -> "e" [] c = "F" -> "f" [] c = "G" -> "g" [] c = "H" -> "h"
      [] c = "I" -> "i" [] c = "J" -> "j" [] c = "K" -> "k" [] c = "L" -> "l"
      [] c = "M" -> "m" [] c = "N" -> "n" [] c = "O" -> "o" [] c = "P" -> "p"
      [] c = "Q" -> "q" [] c = "R" -> "r" [] c = "S" -> "s" [] c = "T" -> "t"
      [] c = "U" -> "u" [] c = "V" -> "v" [] c = "W" -> "w" [] c = "X" -> "x"
      [] c = "Y" -> "y" [] c = "Z" -> "z"
      [] OTHER -> c

Lower(s) == [n \in 1..Len(s) |-> LowerChar(s[n])]

\* str.strip() of a sequence of characters (or of tokens): the blanks at
\* both ends are removed
StripSeq(s) ==
    LET inked == {n \in 1..Len(s) : s[n] # " "}
    IN  IF inked = {} THEN <<>>
        ELSE SubSeq(s, Min(inked), CHOOSE n \in inked : \A m \in inked : m <= n)

\* str.split(sep), sep one character (or token): the parts between the
\* occurrences of sep
RECURSIVE SplitSeq(_, _)
SplitSeq(s, sep) ==
    LET at == {n \in 1..Len(s) : s[n] = sep}
    IN  IF at = {} THEN <<s>>
        ELSE <<SubSeq(s, 1, Min(at) - 1)>>
             \o SplitSeq(SubSeq(s, Min(at) + 1, Len(s)), sep)

\* variant: the address is returned as it was given
normalize_email_as_given(email) ==
    IF email = NoneStr \/ email = <<>> THEN NoneStr
    ELSE LET parts == SplitSeq(Lower(StripSeq(email)), "@")
         IN  IF Len(parts) # 2 \/ parts[1] = <<>> \/ parts[2] = <<>>
             THEN NoneStr
             ELSE email

\* normalize_email, lines 81-103 ('@' not in email is the case of one part)
normalize_email(email) ==
    IF email = NoneStr \/ email = <<>> THEN NoneStr
    ELSE LET stripped == Lower(StripSeq(email))
             parts == SplitSeq(stripped, "@")
         IN  IF Len(parts) = 1 THEN NoneStr
             ELSE IF Len(parts) # 2 \/ parts[1] = <<>> \/ parts[2] = <<>>
                  THEN NoneStr
                  ELSE stripped

\* float(text) of a text given as tokens: the float in tenths, nan, or
\* ValueError (ok = FALSE) for anything that is not one number
FloatOfTokens(text) ==
    LET number == [ok |-> TRUE, nan |-> FALSE, tenths |-> 0]
        token == IF Len(text) = 1 THEN text[1] ELSE "not a number"
    IN  CASE token = "-28.6" -> [number EXCEPT !.tenths = -286]
          [] token = "-45" -> [number EXCEPT !.tenths = -450]
          [] token = "-10" -> [number EXCEPT !.tenths = -100]
          [] token = "-45.1" -> [number EXCEPT !.tenths = -451]
          [] token = "-9.9" -> [number EXCEPT !.tenths = -99]
          [] token = "153.6" -> [number EXCEPT !.tenths = 1536]
          [] token = "110" -> [number EXCEPT !.tenths = 1100]
          [] token = "160" -> [number EXCEPT !.tenths = 1600]
          [] token = "109.9" -> [number EXCEPT !.tenths = 1099]
          [] token = "160.1" -> [number EXCEPT !.tenths = 1601]
          [] token = "nan" -> [number EXCEPT !.nan = TRUE]
          [] OTHER -> [number EXCEPT !.ok = FALSE]

\* a <= x <= b for floats: False when x is nan
Between(a, x, b) == ~x.nan /\ a <= x.tenths /\ x.tenths <= b

NonePair == [kind |-> "none", lat |-> 0, lng |-> 0]

\* variant: the longitude is not checked
extract_coordinates_lat_only(boundary) ==
    IF boundary = NoneStr \/ boundary = <<>> \/ ~Contains(boundary, <<",">>)
    THEN NonePair
    ELSE LET parts == SplitSeq(boundary, ",")
             lat == FloatOfTokens(StripSeq(parts[1]))
             lng == FloatOfTokens(StripSeq(parts[2]))
         IN  IF Len(parts) # 2 THEN NonePair
             ELSE IF ~lat.ok \/ ~lng.ok THEN NonePair
             ELSE IF ~Between(-450, lat, -100) THEN NonePair
             ELSE [kind |-> "pair", lat |-> lat.tenths, lng |-> lng.tenths]

\* the try block of extract_coordinates, lines 146-160: the pair in tenths,
\* the pair (None, None), or the exception raised in it (kind)
ExtractTry(boundary) ==
    LET parts == SplitSeq(boundary, ",")
        lat == FloatOfTokens(StripSeq(parts[1]))
        lng == FloatOfTokens(StripSeq(parts[2]))
    IN  IF Len(parts) # 2 THEN NonePair
        ELSE IF ~lat.ok \/ ~lng.ok THEN [NonePair EXCEPT !.kind = "ValueError"]
        ELSE IF ~Between(-450, lat, -100) THEN NonePair
        ELSE IF ~Between(1100, lng, 1600) THEN NonePair
        ELSE [kind |-> "pair", lat |-> lat.tenths, lng |-> lng.tenths]

\* extract_coordinates, lines 133-162, for a str or None: what the try
\* block returns, (None, None) for an exception caught at line 161, and
\* any other exception as it is
extract_coordinates(boundary) ==
    IF boundary = NoneStr \/ boundary = <<>> \/ ~Contains(boundary, <<",">>)
    THEN NonePair
    ELSE IF ExtractTry(boundary).kind \in {"ValueError", "TypeError", "IndexError"}
         THEN NonePair
         ELSE ExtractTry(boundary)

\* ------------------------------------------------ the texts given to them
\* national significant numbers: nine digits, the first not 0
NationalNumbers ==
    {<<a, b>> \o rest : a \in {"2", "4", "6"}, b \in {"9", "1", "0"},
                        rest \in {<<"8", "7", "6", "5", "4", "3", "2">>,
                                  <<"1", "2", "3", "4", "5", "6", "7">>}}

PhoneFormats == {"0298765432", "02 9876 5432", "(02) 9876 5432", "0412 345 678",
                 "+61298765432", "+61 2 9876 5432", "+61 412 345 678"}

\* the number n written in a format (named by the example of the tests)
Written(n, format) ==
    CASE format = "0298765432" -> <<"0">> \o n
      [] format = "02 9876 5432" ->
            <<"0", n[1], " ">> \o SubSeq(n, 2, 5) \o <<" ">> \o SubSeq(n, 6, 9)
      [] format = "(02) 9876 5432" ->
            <<"(", "0", n[1], ")", " ">> \o SubSeq(n, 2, 5) \o <<" ">>
            \o SubSeq(n, 6, 9)
      [] format = "0412 345 678" ->
            <<"0">> \o SubSeq(n, 1, 3) \o <<" ">> \o SubSeq(n, 4, 6) \o <<" ">>
            \o SubSeq(n, 7, 9)
      [] format = "+61298765432" -> <<"+", "6", "1">> \o n
      [] format = "+61 2 9876 5432" ->
            <<"+", "6", "1", " ", n[1], " ">> \o SubSeq(n, 2, 5) \o <<" ">>
            \o SubSeq(n, 6, 9)
      [] format = "+61 412 345 678" ->
            <<"+", "6", "1", " ">> \o SubSeq(n, 1, 3) \o <<" ">>
            \o SubSeq(n, 4, 6) \o <<" ">> \o SubSeq(n, 7, 9)

\* None, '', 'invalid', '123', and texts of eight digits
InvalidPhones ==
    {NoneStr, <<>>, <<"i", "n", "v", "a", "l", "i", "d">>, <<"1", "2", "3">>,
     <<" ">>, <<"+", "6", "1">>, <<"0", "2", " ", "9", "8", "7", "6">>,
     <<"1", "2", "3", "4", "5", "6", "7", "8">>,
     <<"(", "0", "2", ")", " ", "9", "8", "7", " ", "5", "4", "3">>,
     <<"+", "6", "1", " ", "2", " ", "9", "8", "7", "6", "5">>}

MaxChars == 4         \* longest address given to normalize_email

EmailChars == {"a", "B", "@", " ", "."}

Emails ==
    {NoneStr} \cup UNION {[1..n -> EmailChars] : n \in 0..MaxChars}

MaxTokens == 3        \* longest boundary given to extract_coordinates, in tokens

BoundaryTokens ==
    {"-28.6", "-45", "-10", "-45.1", "-9.9", "153.6", "110", "160", "109.9",
     "160.1", "nan", "abc", ",", " "}

\* None, every text of at most MaxTokens tokens, and "lat, lng" and
\* " lat , lng " for every pair of tokens
Boundaries ==
    {NoneStr}
    \cup UNION {[1..n -> BoundaryTokens] : n \in 0..MaxTokens}
    \cup {<<a, ",", " ", b>> : a \in BoundaryTokens, b \in BoundaryTokens}
    \cup {<<" ", a, " ", ",", b, " ">> : a \in BoundaryTokens, b \in BoundaryTokens}

\* A text is given to one of the three functions.  call: function is the
\* function called, results what it returned so far; normalize_email is
\* called again on what it returned.
InitNormalize ==
    /\ NoLoader
    /\ client = <<>>
    /\ \/ \E n \in NationalNumbers : \E format \in PhoneFormats :
             call = [function |-> "normalize_phone", number |-> n,
                     format |-> format, text |-> Written(n, format),
                     results |-> <<>>]
       \/ \E phone \in InvalidPhones :
             call = [function |-> "normalize_phone", number |-> <<>>,
                     format |-> "invalid", text |-> phone, results |-> <<>>]
       \/ \E email \in Emails :
             call = [function |-> "normalize_email", text |-> email,
                     results |-> <<>>]
       \/ \E boundary \in Boundaries :
             call = [function |-> "extract_coordinates", text |-> boundary,
                     results |-> <<>>]

NormalizePhone ==
    /\ call.function = "normalize_phone"
    /\ call.results = <<>>
    /\ call' = [call EXCEPT !.results = <<normalize_phone(call.text)>>]
    /\ UNCHANGED <<loaderSide, client>>

NormalizeEmail ==
    /\ call.function = "normalize_email"
    /\ Len(call.results) < 2
    /\ call' = [call EXCEPT !.results =
                   Append(@, normalize_email(IF call.results = <<>> THEN call.text
                                             ELSE call.results[1]))]
    /\ UNCHANGED <<loaderSide, client>>

ExtractCoordinates ==
    /\ call.function = "extract_coordinates"
    /\ call.results = <<>>
    /\ call' = [call EXCEPT !.results = <<extract_coordinates(call.text)>>]
    /\ UNCHANGED <<loaderSide, client>>

NextNormalize ==
    \/ NormalizePhone
    \/ NormalizeEmail
    \/ ExtractCoordinates

SpecNormalize == InitNormalize /\ [][NextNormalize]_vars
\* ------------------------------------------------------------- ATDWClient
max_retries == 3

backoff_factor == 2

MaxPages == 2         \* most pages the server has for one search

RECURSIVE Pow(_, _)
Pow(b, n) == IF n = 0 THEN 1 ELSE b * Pow(b, n - 1)

\* What session.get meets: a response (status, the Retry-After header,
\* 60 when absent, and for a 200 whether the page has products and whether
\* more remain), or no response (requests raises Timeout or
\* ConnectionError: status 0)
ServerAnswers ==
    {[status |-> 200, retry_after |-> 60, body |-> b] : b \in {"more", "last", "empty"}}
    \cup {[status |-> 429, retry_after |-> r, body |-> "none"] : r \in {1, 60}}
    \cup {[status |-> s, retry_after |-> 60, body |-> "none"] : s \in {0, 204, 404, 500}}

\* response.raise_for_status() raises HTTPError
RaisesForStatus(status) == 400 <= status /\ status < 600

\* ATDWClient.__init__ done, no call in progress
IdleClient ==
    [pc |-> "idle", method |-> "none", page |-> 1, all_results |-> <<>>,
     attempt |-> 0, waits |-> <<>>, statuses |-> <<>>, body |-> "none",
     exception |-> "none", error_status |-> 0]

\* _make_request, lines 115-144: one turn of the retry loop on the answer
\* a.  The exception of session.get leaves the loop at once; a 200 returns;
\* a 429 sleeps retry_after * backoff_factor ** attempt while retries are
\* left and raises otherwise; a status raise_for_status raises for leaves
\* the loop; any other status goes to the next turn without sleeping, and
\* line 144 raises an HTTPError without response after the last turn
\* (error_status -1).
Iteration(c, a) ==
    LET seen == [c EXCEPT !.statuses = Append(@, a.status)]
    IN  CASE a.status = 0 ->
               [seen EXCEPT !.pc = "except", !.exception = "Timeout"]
          [] a.status = 200 -> [seen EXCEPT !.pc = "response", !.body = a.body]
          [] a.status = 429 /\ c.attempt < max_retries ->
               [seen EXCEPT !.pc = "sleep",
                            !.waits = Append(@, a.retry_after
                                                * Pow(backoff_factor, c.attempt))]
          [] RaisesForStatus(a.status) ->
               [seen EXCEPT !.pc = "except", !.exception = "HTTPError",
                            !.error_status = a.status]
          [] OTHER ->
               IF c.attempt < max_retries THEN [seen EXCEPT !.attempt = @ + 1]
               ELSE [seen EXCEPT !.pc = "except", !.exception = "HTTPError",
                                 !.error_status = -1]

\* search_products, lines 231-238, as load_state calls it (paginate, no
\* max_pages): the first _make_request begins
SearchProducts ==
    /\ client.pc = "idle"
    /\ client' = [IdleClient EXCEPT !.pc = "request", !.method = "search_products"]
    /\ UNCHANGED <<loaderSide, call>>

\* get_product, lines 283-288
GetProduct ==
    /\ client.pc = "idle"
    /\ client' = [IdleClient EXCEPT !.pc = "request", !.method = "get_product"]
    /\ UNCHANGED <<loaderSide, call>>

\* _make_request, lines 117-141: _rate_limit, session.get and what follows
\* from its answer.  The server has at most MaxPages pages.
Request ==
    /\ client.pc = "request"
    /\ \E a \in ServerAnswers :
          /\ a.body = "more" => client.page < MaxPages
          /\ client.method = "get_product" => a.body \in {"last", "none"}
          /\ client' = Iteration(client, a)
    /\ UNCHANGED <<loaderSide, call>>

\* _make_request, lines 134-135: time.sleep(wait_time) returns, continue
WakeUp ==
    /\ client.pc = "sleep"
    /\ client' = [client EXCEPT !.pc = "request", !.attempt = @ + 1]
    /\ UNCHANGED <<loaderSide, call>>

\* _make_request has returned the response: get_product returns it (line
\* 288); search_products (lines 241-258) ends on a page without products,
\* and otherwise keeps the page and ends when no more remain or asks for
\* the next page
Response ==
    /\ client.pc = "response"
    /\ client' =
          IF client.method = "get_product" THEN [client EXCEPT !.pc = "returned"]
          ELSE IF client.body = "empty" THEN [client EXCEPT !.pc = "returned"]
          ELSE IF client.body = "last"
               THEN [client EXCEPT !.pc = "returned",
                                   !.all_results = Append(@, client.page)]
               ELSE [client EXCEPT !.pc = "request",
                                   !.all_results = Append(@, client.page),
                                   !.page = @ + 1, !.attempt = 0, !.waits = <<>>]
    /\ UNCHANGED <<loaderSide, call>>

\* _make_request has raised: get_product lets the exception through;
\* search_products (lines 260-264) catches an HTTPError, ends the search
\* on a 404 and returns what it has, raises it again otherwise (reading
\* the status of an HTTPError without response raises AttributeError)
Except ==
    /\ client.pc = "except"
    /\ client' =
          IF client.method = "search_products" /\ client.exception = "HTTPError"
          THEN IF client.error_status = -1
               THEN [client EXCEPT !.pc = "raised", !.exception = "AttributeError"]
               ELSE IF client.error_status = 404
                    THEN [client EXCEPT !.pc = "returned"]
                    ELSE [client EXCEPT !.pc = "raised"]
          ELSE [client EXCEPT !.pc = "raised"]
    /\ UNCHANGED <<loaderSide, call>>

InitClient ==
    /\ NoLoader
    /\ call = <<>>
    /\ client = IdleClient

NextClient ==
    \/ SearchProducts
    \/ GetProduct
    \/ Request
    \/ WakeUp
    \/ Response
    \/ Except

SpecClient == InitClient /\ [][NextClient]_vars
\* --------------------------------------- load_state over the client's requests
\* load_state with the request of get_product (line 211) followed through
\* _make_request instead of taken as answered: between two products the
\* loader is inside the client, and the client may be asleep (line 134).

\* the product list of search_products: the answer of get_product for each
\* product is whatever the server answers when it is asked
Listed(detail_list) ==
    [k \in 1..Len(detail_list) |-> Entry(k, "client", detail_list[k])]

\* load_state, lines 195-211: get_product is called for products[i]
GetProductCalled ==
    /\ pc = "loop"
    /\ i <= Len(products)
    /\ client.pc = "idle"
    /\ pc' = "get_product"
    /\ client' = [IdleClient EXCEPT !.pc = "request", !.method = "get_product"]
    /\ UNCHANGED <<inputVars, known_attributes, unknown_attributes, stats,
                   loaderVars, details, pid, committed, pending,
                   nextProductId, nextAttributeId, commits, loadLog, returned,
                   discoveries, registryVars, call>>

\* load_state, lines 211-216 and 244: get_product has returned the detail;
\* _load_product begins
GetProductReturned ==
    /\ pc = "get_product"
    /\ client.pc = "returned"
    /\ LET e == products[i]
       IN  /\ details' = [f \in DOMAIN e.detail \cup {"productId"} |->
                             IF f = "productId" THEN e.productId
                             ELSE e.detail[f]]
           /\ loadLog' = Append(loadLog,
                 [productId |-> e.productId, run |-> run,
                  status |-> "loading", written |-> NoWrites])
    /\ stats' = [stats EXCEPT !.products_processed = @ + 1]
    /\ pc' = "register"
    /\ client' = IdleClient
    /\ UNCHANGED <<inputVars, known_attributes, unknown_attributes,
                   loaderVars, pid, committed, pending,
                   nextProductId, nextAttributeId, commits, returned,
                   discoveries, registryVars, call>>

\* load_state, line 227: get_product has raised; the handler of load_state
\* takes over
GetProductRaised ==
    /\ pc = "get_product"
    /\ client.pc = "raised"
    /\ pc' = "ls_except"
    /\ client' = IdleClient
    /\ UNCHANGED <<inputVars, known_attributes, unknown_attributes, stats,
                   loaderVars, details, pid, committed, pending,
                   nextProductId, nextAttributeId, commits, loadLog, returned,
                   discoveries, registryVars, call>>

\* One run of load_state over up to MaxProducts products, each detail
\* fetched through the client
InitBackoff ==
    /\ \E n \in 1..MaxProducts : \E detail_list \in [1..n -> {DPlain, DBadRate}] :
            runs = <<Listed(detail_list)>>
    /\ batch_size \in 1..MaxBatch
    /\ auto_accept = TRUE
    /\ failing_commits = {}
    /\ Constructed(EmptyStore)
    /\ sessions = <<>>
    /\ attribute_rows = {}
    /\ call = <<>>
    /\ client = IdleClient

NextBackoff ==
    \/ LoadState
    \/ GetProductCalled
    \/ Request
    \/ WakeUp
    \/ Response
    \/ Except
    \/ GetProductReturned
    \/ GetProductRaised
    \/ RegisterAttributes
    \/ UpsertProduct
    \/ UpsertProductTypes
    \/ UpsertAttributes
    \/ UpsertMedia
    \/ UpsertAddresses
    \/ UpsertCommunication
    \/ UpsertServices
    \/ UpsertRates
    \/ UpsertDeals
    \/ Loaded
    \/ LoadProductExcept
    \/ LoadStateExcept
    \/ FinalCommit

SpecBackoff == InitBackoff /\ [][NextBackoff]_vars
\* ------------------------------------------- normalize_phone on its output
\* the international access codes a number is dialled with from abroad (00)
\* and from Australia (0011)
AccessCodes == {<<"0", "0">>, <<"0", "0", "1", "1">>}

\* the number n written as it is dialled: access code, 61, national digits
Dialled(code, n) == code \o <<" ", "6", "1", " ">> \o n

\* normalize_phone is called on a number in any of the formats, on an
\* invalid text or on a dialled number
InitRenormalize ==
    /\ NoLoader
    /\ client = <<>>
    /\ \/ \E n \in NationalNumbers : \E format \in PhoneFormats :
             call = [function |-> "normalize_phone", number |-> n,
                     format |-> format, text |-> Written(n, format),
                     results |-> <<>>]
       \/ \E phone \in InvalidPhones :
             call = [function |-> "normalize_phone", number |-> <<>>,
                     format |-> "invalid", text |-> phone, results |-> <<>>]
       \/ \E n \in NationalNumbers : \E code \in AccessCodes :
             call = [function |-> "normalize_phone", number |-> n,
                     format |-> "dialled", text |-> Dialled(code, n),
                     results |-> <<>>]

\* normalize_phone is called on what it returned, when that is not None
NormalizePhoneAgain ==
    /\ call.function = "normalize_phone"
    /\ Len(call.results) = 1
    /\ call.results[1] # NoneStr
    /\ call' = [call EXCEPT !.results = Append(@, normalize_phone(call.results[1]))]
    /\ UNCHANGED <<loaderSide, client>>

NextRenormalize ==
    \/ NormalizePhone
    \/ NormalizePhoneAgain

SpecRenormalize == InitRenormalize /\ [][NextRenormalize]_vars
\* ------------------------------------------------- search_products, paging
\* search_products with its arguments paginate and max_pages, and a server
\* that answers each request with a page of products and a numberOfResults
\* of its choice, or with an HTTP error.
MaxPageSize == 2      \* most products on one page

MaxTotal == 3         \* largest numberOfResults the server reports

MaxPagesArg == 2      \* largest max_pages argument (0: None, no limit)

\* the products of page number page, k of them
PageOf(page, k) == [n \in 1..k |-> <<page, n>>]

\* what _make_request gives for one page: the response (its products, its
\* numberOfResults, 0 when the key is absent), or an HTTPError raised for
\* a 404 or for another status
PageAnswers(page) ==
    {[kind |-> "response", products |-> PageOf(page, k), numberOfResults |-> n] :
        k \in 0..MaxPageSize, n \in 0..MaxTotal}
    \cup {[kind |-> kind, products |-> <<>>, numberOfResults |-> 0] :
             kind \in {"404", "HTTPError"}}

\* variant: the page limit is compared with > instead of >=
BreaksPastMaxPages(paginate, max_pages, page, collected, total_count) ==
    \/ ~paginate
    \/ max_pages # 0 /\ page > max_pages
    \/ collected >= total_count

\* variant: paginate is not looked at
BreaksIgnoringPaginate(paginate, max_pages, page, collected, total_count) ==
    \/ max_pages # 0 /\ page >= max_pages
    \/ collected >= total_count

\* search_products, lines 247-256: the breaks after a page with products
\* was added to all_results (max_pages None or 0 is no limit)
Breaks(paginate, max_pages, page, collected, total_count) ==
    \/ ~paginate
    \/ max_pages # 0 /\ page >= max_pages
    \/ collected >= total_count

\* search_products, lines 231-238: params['pge'] = page and the request
SearchRequest ==
    /\ client.pc = "loop"
    /\ \E a \in PageAnswers(client.page) :
          client' = [client EXCEPT !.pc = "answered",
                                   !.requested = Append(@, client.page),
                                   !.answers = Append(@, a)]
    /\ UNCHANGED <<loaderSide, call>>

\* search_products, lines 241-266: what follows from the answer
SearchAnswered ==
    /\ client.pc = "answered"
    /\ LET a == client.answers[Len(client.answers)]
           collected == client.all_results \o a.products
       IN  client' =
              CASE a.kind = "HTTPError" -> [client EXCEPT !.pc = "raised"]
                [] a.kind = "404" -> [client EXCEPT !.pc = "returned"]
                [] a.products = <<>> -> [client EXCEPT !.pc = "returned"]
                [] Breaks(client.paginate, client.max_pages, client.page,
                          Len(collected), a.numberOfResults) ->
                      [client EXCEPT !.pc = "returned", !.all_results = collected]
                [] OTHER ->
                      [client EXCEPT !.pc = "loop", !.all_results = collected,
                                     !.page = @ + 1]
    /\ UNCHANGED <<loaderSide, call>>

\* search_products is called: all_results = [], page = 1
InitSearch ==
    /\ NoLoader
    /\ call = <<>>
    /\ \E paginate \in BOOLEAN : \E max_pages \in 0..MaxPagesArg :
          client = [pc |-> "loop", paginate |-> paginate, max_pages |-> max_pages,
                    page |-> 1, all_results |-> <<>>, requested |-> <<>>,
                    answers |-> <<>>]

NextSearch ==
    \/ SearchRequest
    \/ SearchAnswered

\* the call runs on: neither the request nor the loop body waits for
\* anything but the answer
SpecSearch == InitSearch /\ [][NextSearch]_vars /\ WF_vars(NextSearch)
\* ------------------------------------------------ the composite code as a key
\* Two attribute entries of one product, their composite codes, the
\* definitions register_attributes finds for them in an empty registry and
\* the assignments _upsert_attributes writes once they are registered.
MaxCodeLen == 2       \* longest attributeTypeId

\* type codes: a letter, the blank and the underscore
TypeCodes == UNION {[1..n -> {"T", " ", "_"}] : n \in 0..MaxCodeLen}

\* attribute codes: empty, a letter, an underscore, null and the text None
AttrCodes == {<<>>, <<"X">>, <<"_">>, NoneId, <<"N", "o", "n", "e">>}

AttributeEntries ==
    {[attributeTypeId |-> t, attributeId |-> c, attributeIdDescription |-> Missing] :
        t \in TypeCodes, c \in AttrCodes}

\* known_attributes after the codes of a list were all registered
Registered(attributes) ==
    [code \in {FullCode(attributes[k]) : k \in 1..Len(attributes)} |-> 1]

InitCodes ==
    /\ NoLoader
    /\ client = <<>>
    /\ \E a \in AttributeEntries : \E b \in AttributeEntries :
          call = [pc |-> "called", attributes |-> <<a, b>>, codes |-> <<>>,
                  new_attributes |-> <<>>, attrs_dict |-> <<>>]

\* register_attributes, lines 61-79, and _upsert_attributes, lines 416-428,
\* on the two entries
CompositeCodes ==
    /\ call.pc = "called"
    /\ call' = [call EXCEPT
          !.pc = "done",
          !.codes = <<FullCode(call.attributes[1]), FullCode(call.attributes[2])>>,
          !.new_attributes = NewAttributes(call.attributes, EmptyFn, {}),
          !.attrs_dict = AttrsDict(call.attributes, Registered(call.attributes), <<>>)]
    /\ UNCHANGED <<loaderSide, client>>

NextCodes == CompositeCodes

SpecCodes == InitCodes /\ [][NextCodes]_vars
\* ------------------------------------------- the AttributeRegistry by itself
\* One AttributeRegistry receives a sequence of register_attributes calls,
\* as _load_product makes them for one product after another.  Besides the
\* entry whose attr_code is None, a statement of _add_attributes may fail
\* in the store (cur.execute or conn.commit raises); the caller then rolls
\* the connection back (load_state, lines 227-231) before the next call.
MaxCalls == 3         \* most calls of register_attributes followed

\* the attribute lists of the products
AttributeLists ==
    UNION {[1..n -> {AttrPool, AttrView, AttrNull}] : n \in 1..2}

\* call: the number of calls made, the list of the last call, the codes it
\* found new, and whether the caller still has to roll back
InitRegistry ==
    /\ runs = <<>>
    /\ batch_size = 1
    /\ auto_accept \in BOOLEAN
    /\ failing_commits = {}
    /\ Constructed(EmptyStore)
    /\ sessions = <<>>
    /\ attribute_rows = {}
    /\ client = <<>>
    /\ call = [pc |-> "idle", calls |-> 0, attributes |-> <<>>, new_codes |-> {},
               failures |-> 0]

\* register_attributes, lines 61-105, with _add_attributes, lines 116-141.
\* failing_execute is the number of the new attribute whose INSERT raises
\* (0: none), commit_raises whether conn.commit() does.
RegisterCall ==
    /\ call.pc = "idle"
    /\ call.calls < MaxCalls
    /\ \E attributes \in AttributeLists :
       LET new_attributes == NewAttributes(attributes, known_attributes,
                                           unknown_attributes)
           flagged == unknown_attributes \cup CodesOf(new_attributes)
       IN  IF new_attributes = <<>>
           THEN /\ register_result' = "True"
                /\ call' = [call EXCEPT !.calls = @ + 1, !.attributes = attributes,
                                        !.new_codes = {}]
                /\ UNCHANGED <<known_attributes, unknown_attributes, committed,
                               pending, nextAttributeId, commits>>
           ELSE \E response \in IF auto_accept THEN {"auto"} ELSE {"yes", "no"} :
                \E failing_execute \in 0..Len(new_attributes) :
                \E commit_raises \in BOOLEAN :
                  IF response = "no"
                  THEN /\ failing_execute = 0 /\ ~commit_raises
                       /\ unknown_attributes' = flagged
                       /\ register_result' = "False"
                       /\ call' = [call EXCEPT !.calls = @ + 1,
                                               !.attributes = attributes,
                                               !.new_codes = CodesOf(new_attributes)]
                       /\ UNCHANGED <<known_attributes, committed, pending,
                                      nextAttributeId, commits>>
                  ELSE LET raises == [k \in 1..Len(new_attributes) |->
                                         \/ AddRaises(new_attributes[k])
                                         \/ k = failing_execute]
                           raised == FirstRaise(raises) # 0
                           st == AddAttributes(
                                   Processed(new_attributes, raises),
                                   [store |-> pending,
                                    known |-> known_attributes,
                                    unknown |-> flagged,
                                    next |-> nextAttributeId])
                       IN  /\ raised => ~commit_raises
                           /\ known_attributes' = st.known
                           /\ unknown_attributes' = st.unknown
                           /\ pending' = st.store
                           /\ nextAttributeId' = st.next
                           /\ commits' = IF raised THEN commits ELSE commits + 1
                           /\ committed' = IF raised \/ commit_raises THEN committed
                                           ELSE st.store
                           /\ register_result' = IF raised \/ commit_raises
                                                 THEN "raised" ELSE "True"
                           /\ call' = [call EXCEPT
                                 !.pc = IF raised \/ commit_raises THEN "raised"
                                        ELSE "idle",
                                 !.calls = @ + 1,
                                 !.attributes = attributes,
                                 !.new_codes = CodesOf(new_attributes),
                                 !.failures = IF raised \/ commit_raises
                                              THEN @ + 1 ELSE @]
    /\ UNCHANGED <<inputVars, loaderVars, stats, pc, details, pid, nextProductId,
                   loadLog, returned, discoveries, sessions, attribute_rows,
                   client>>

\* load_state, lines 227-231: the exception of the registration reaches the
\* handler, which rolls the connection back
RegistryRollback ==
    /\ call.pc = "raised"
    /\ pending' = committed
    /\ call' = [call EXCEPT !.pc = "idle"]
    /\ UNCHANGED <<inputVars, loaderVars, known_attributes, unknown_attributes,
                   stats, pc, details, pid, committed, nextProductId,
                   nextAttributeId, commits, loadLog, returned, discoveries,
                   registryVars, client>>

NextRegistry ==
    \/ RegisterCall
    \/ RegistryRollback

SpecRegistry == InitRegistry /\ [][NextRegistry]_vars
\* ------------------------------------------------- one batch of three products
\* One run of load_state over three products with batch_size 2 or 3, so
\* that a batch holds a product before and a product after the one that
\* registers an attribute, cannot be fetched or fails.
BatchAnswers ==
    {[fetch |-> "ok", detail |-> d] : d \in {DPlain, DView, DBadRate}}
    \cup {[fetch |-> "none", detail |-> DPlain],
          [fetch |-> "raise", detail |-> DPlain]}

InitBatch ==
    /\ \E answers \in [1..3 -> BatchAnswers] : runs = <<ListOf(answers)>>
    /\ batch_size \in {2, 3}
    /\ auto_accept \in BOOLEAN
    /\ failing_commits = {}
    /\ Constructed(EmptyStore)
    /\ SingleLoader

SpecBatch == InitBatch /\ [][Next]_vars
\* ----------------------------------------------------------------- claims
Loads == 1..Len(loadLog)

\* the detail that load number n was given
DetailOf(n) == runs[loadLog[n].run][loadLog[n].productId].detail

\* load_state has returned from its run-th call
Returned == pc = "idle" /\ run >= 1

\* the scenario of seven products with batch_size = 3
SevenProducts == Len(runs) = 1 /\ Len(runs[1]) = 7 /\ batch_size = 3

\* C1: with batch_size = 3 and 7 products of which the fifth raises while
\* it is loaded, when load_state has returned the committed tables hold
\* all the writes of products 1-3 and of product 4 and none of product 5.
C1_BatchCommitAroundFailure ==
    (SevenProducts /\ Returned) =>
        /\ \A n \in 1..4 : /\ loadLog[n].status = "loaded"
                           /\ WritesOf(committed, n) = loadLog[n].written
                           /\ n \in DOMAIN committed.products
        /\ loadLog[5].status = "failed"
        /\ WritesOf(committed, 5) = NoWrites

\* C2: no write of a load that raised is ever in the committed tables, and
\* when load_state returns (or dies in its final commit) _load_product has
\* been called for every product of the list whose detail was fetched.
C2_FailureIsolation ==
    /\ \A n \in Loads :
          loadLog[n].status = "failed" => WritesOf(committed, n) = NoWrites
    /\ (pc \in {"idle", "crashed"}) =>
          stats.products_processed =
             Cardinality(UNION {{<<r, k>> : k \in {j \in 1..Len(runs[r]) :
                                                      runs[r][j].fetch = "ok"}} :
                                r \in 1..run})

\* C2 witness: a load that had written rows when it raised was rolled back,
\* and a later product of the same run is committed
C2_Witness ==
    /\ Returned
    /\ \E n \in Loads : \E m \in Loads :
          /\ n < m
          /\ loadLog[n].run = loadLog[m].run
          /\ loadLog[n].status = "failed"
          /\ loadLog[n].written.product_addresses # {}
          /\ loadLog[m].status = "loaded"
          /\ WritesOf(committed, m) = loadLog[m].written
          /\ loadLog[m].written.products # {}

\* C3: the committed tables never hold a write of a load that is not
\* complete, and while a product's committed row is that of load n the
\* committed tables hold all the writes of load n.
C3_AtomicPerProduct ==
    \A n \in Loads :
        /\ WritesOf(committed, n) # NoWrites => loadLog[n].status = "loaded"
        /\ (/\ loadLog[n].productId \in DOMAIN committed.products
            /\ committed.products[loadLog[n].productId].load = n)
           => WritesOf(committed, n) = loadLog[n].written

\* C3 witness: the commit of a registration of attributes has just
\* happened inside a load, after an earlier product was loaded; the
\* committed tables hold that product's rows in several tables
C3_Witness ==
    /\ pc = "upsert_product"
    /\ discoveries # <<>>
    /\ discoveries[Len(discoveries)].load = load
    /\ discoveries[Len(discoveries)].outcome = "registered"
    /\ load > 1
    /\ loadLog[load - 1].run = run
    /\ loadLog[load - 1].written.product_addresses # {}
    /\ loadLog[load - 1].written.product_deals # {}
    /\ WritesOf(committed, load - 1) = loadLog[load - 1].written
    /\ batch_count > 0

\* C4: within a run, the committed writes of a product of that run are
\* never removed or changed by a later step.
C4_CommittedStays ==
    [][\A n \in Loads :
          (loadLog[n].run = run' /\ WritesOf(committed, n) # NoWrites)
             => WritesOf(committed', n) = WritesOf(committed, n)]_vars

\* C4 witness: a product is committed and a later product of the same run
\* has failed and been rolled back
C4_Witness ==
    /\ pc = "loop"
    /\ \E n \in Loads : \E m \in Loads :
          /\ n < m
          /\ loadLog[n].run = run /\ loadLog[m].run = run
          /\ loadLog[m].status = "failed"
          /\ loadLog[m].written.products # {}
          /\ WritesOf(committed, n) = loadLog[n].written
          /\ loadLog[n].written.products # {}
\* the rows of a product in a table
RowsOf(store, table, id) ==
    IF id \in DOMAIN store[table] THEN store[table][id].rows ELSE <<>>

\* what a reader of the store sees: the tables without the bookkeeping of
\* the model
Observable(store) ==
    [products |->
        [id \in DOMAIN store.products |->
            [product_id |-> store.products[id].product_id,
             is_active |-> store.products[id].is_active,
             latitude |-> store.products[id].latitude,
             longitude |-> store.products[id].longitude,
             raw_source |-> store.products[id].raw_source]],
     product_attributes |-> store.product_attributes,
     children |->
        [table \in ChildTables |->
            [id \in 1..nextProductId |-> RowsOf(store, table, id)]]]

\* C5: when load_state has run twice on the same input, the committed
\* tables (product rows with their surrogate ids, child rows) are those
\* that the first run left.
C5_Idempotent ==
    (Returned /\ run = 2 /\ Len(runs) = 2 /\ runs[1] = runs[2])
        => Observable(committed) = Observable(returned[1])

\* C6: when a product has been loaded, its addresses, contacts, services,
\* rates and deals in the store are exactly the rows derived from the
\* detail just loaded (none for an empty list).
C6_ChildrenReplaced ==
    pc = "loaded" =>
        /\ RowsOf(pending, "product_addresses", pid) = AddressRows(details.addresses)
        /\ RowsOf(pending, "product_contacts", pid) = ContactRows(details.communication)
        /\ RowsOf(pending, "product_services", pid) = ServiceRows(details.services)
        /\ RowsOf(pending, "product_rates", pid) = RateRows(details.rates)
        /\ RowsOf(pending, "product_deals", pid) = DealRows(details.deals)

\* C7: known_attributes holds only codes whose definition is in the
\* committed product_attributes table.
C7_KnownOnlyConfirmed ==
    DOMAIN known_attributes \subseteq DOMAIN committed.product_attributes

\* the composite codes a detail references
CodesIn(detail) ==
    {FullCode(detail.attributes[k]) : k \in 1..Len(detail.attributes)}

\* C8: the codes of a batch that was discovered and registered are in
\* known_attributes, and no later batch surfaces any of them again.
C8_DiscoveredOnce ==
    \A j \in 1..Len(discoveries) :
        discoveries[j].outcome = "registered" =>
            /\ discoveries[j].codes \subseteq DOMAIN known_attributes
            /\ \A k \in 1..Len(discoveries) :
                  k > j => discoveries[k].codes \cap discoveries[j].codes = {}

\* C8 witness: a product's new code was registered, and a different product
\* referencing the same code was loaded later in the run
C8_Witness ==
    \E j \in 1..Len(discoveries) : \E m \in Loads :
        /\ discoveries[j].outcome = "registered"
        /\ Cardinality(discoveries[j].codes) = 1
        /\ discoveries[j].load < m
        /\ loadLog[m].run = loadLog[discoveries[j].load].run
        /\ loadLog[m].productId # loadLog[discoveries[j].load].productId
        /\ discoveries[j].codes \subseteq CodesIn(DetailOf(m))
        /\ loadLog[m].status = "loaded"

\* no entry of the detail makes a step of _load_product raise
CleanDetail(detail) ==
    /\ ~Coordinates(detail.addresses).raised
    /\ FirstRaise(AddressesRaise(detail.addresses)) = 0
    /\ FirstRaise(RatesRaise(detail.rates)) = 0
    /\ FirstRaise(DealsRaise(detail.deals)) = 0

\* the step in which the operator declines a batch
Declines ==
    /\ Len(discoveries') = Len(discoveries) + 1
    /\ discoveries'[Len(discoveries')].outcome = "declined"

\* C9: the codes of a declined batch never get into known_attributes and
\* are in no other batch surfaced by register_attributes; declining counts
\* no error and the load goes on, and it does not fail unless an entry of
\* the detail raises.
C9_DeclinedStaysUnknown ==
    /\ [](\A j \in 1..Len(discoveries) :
            discoveries[j].outcome = "declined" =>
                /\ discoveries[j].codes \cap DOMAIN known_attributes = {}
                /\ \A k \in 1..Len(discoveries) :
                      k # j => discoveries[k].codes \cap discoveries[j].codes = {}
                /\ CleanDetail(DetailOf(discoveries[j].load))
                      => loadLog[discoveries[j].load].status # "failed")
    /\ [][Declines => (pc' = "upsert_product" /\ stats' = stats)]_vars

\* C9 witness: a batch was declined, its product was loaded, and a later
\* product that references one of the declined codes was loaded too
C9_Witness ==
    \E j \in 1..Len(discoveries) : \E m \in Loads :
        /\ discoveries[j].outcome = "declined"
        /\ loadLog[discoveries[j].load].status = "loaded"
        /\ discoveries[j].load < m
        /\ discoveries[j].codes \cap CodesIn(DetailOf(m)) # {}
        /\ loadLog[m].status = "loaded"
        /\ stats.errors = 0

\* C10: the step of _upsert_attributes writes, as the assignments of the
\* product, exactly the codes of its attribute list that are in
\* known_attributes, each with value true, and nothing when there is none.
C10_OnlyKnownAssigned ==
    [][(pc = "upsert_attributes" /\ pc' = "upsert_media") =>
        LET expected == CodesIn(details) \cap DOMAIN known_attributes
            before == pending.product_attribute_values
            after == pending'.product_attribute_values
        IN  IF expected = {} THEN after = before
            ELSE /\ pid \in DOMAIN after
                 /\ {after[pid].rows[k].code : k \in 1..Len(after[pid].rows)}
                       = expected
                 /\ \A k \in 1..Len(after[pid].rows) : after[pid].rows[k].value
                 /\ \A id \in DOMAIN before : id # pid => after[id] = before[id]
                 /\ DOMAIN after = DOMAIN before \cup {pid}]_vars

\* C10 witness: assignments were just written for a product whose list
\* also has a code that is not known
C10_Witness ==
    /\ pc = "upsert_media"
    /\ pid \in DOMAIN pending.product_attribute_values
    /\ pending.product_attribute_values[pid].load = load
    /\ pending.product_attribute_values[pid].rows # <<>>
    /\ CodesIn(details) \ DOMAIN known_attributes # {}

\* C11: when register_attributes returns, it returns True if every code of
\* the list was already in known_attributes, and False if the call
\* discovered new codes.
C11_ReturnsAllKnown ==
    [][(pc = "register" /\ details.attributes # <<>>
        /\ register_result' \in {"True", "False"}) =>
        /\ CodesIn(details) \subseteq DOMAIN known_attributes
              => register_result' = "True"
        /\ NewAttributes(details.attributes, known_attributes,
                         unknown_attributes) # <<>>
              => register_result' = "False"]_vars

\* C12: with two loaders on one store, the committed product_attributes
\* never holds two definitions of one code, and a definition once
\* committed stays, with the identifier it was given; a later registration
\* of the code changes at most its label and facet flag.
C12_OneDefinitionPerCode ==
    /\ [](\A r1 \in CommittedRows : \A r2 \in CommittedRows :
            r1.code = r2.code => r1 = r2)
    /\ [][\A r \in CommittedRows :
            \E r2 \in {x \in attribute_rows' : x.by = 0} :
                r2.code = r.code /\ r2.attribute_id = r.attribute_id]_vars

\* C12 witness: both loaders have registered the same code, the second
\* registration changed the label, and the store holds one definition
C12_Witness ==
    /\ \A s \in SessionIds : /\ sessions[s].pc = "idle"
                              /\ sessions[s].calls = <<>>
                              /\ FullCode(AttrPool) \in sessions[s].added
    /\ RowsBy(1) \cup RowsBy(2) = {}
    /\ \E r \in CommittedRows :
          /\ r.code = FullCode(AttrPool)
          /\ r.label = "Swimming pool"
          /\ \A s \in SessionIds :
                sessions[s].known[FullCode(AttrPool)] = r.attribute_id

\* the products of the runs begun whose detail could not be fetched
NotFetched ==
    UNION {{<<r, k>> : k \in {j \in 1..Len(runs[r]) :
                                 runs[r][j].fetch \in {"none", "raise"}}} :
           r \in 1..run}

\* the loads that raised
FailedLoads == {n \in Loads : loadLog[n].status = "failed"}

\* C13: when load_state has returned (no commit having raised),
\* stats['errors'] is the number of products that failed: the loads that
\* raised plus the details that could not be fetched.
C13_ErrorsCountedOnce ==
    (Returned /\ failing_commits = {}) =>
        stats.errors = Cardinality(FailedLoads) + Cardinality(NotFetched)

\* the loads that have a write in the open transaction that is not committed
Uncommitted ==
    UNION {{pending[table][k].load :
               k \in {x \in DOMAIN pending[table] :
                         \/ x \notin DOMAIN committed[table]
                         \/ committed[table][x] # pending[table][x]}} :
           table \in ChildTables \cup {"products"}}

\* C14: batch_count changes only by one at a product loaded and to zero at
\* a commit or a rollback; the product that takes it to batch_size is
\* followed at once by a commit that leaves nothing pending and resets it;
\* never more than batch_size products have uncommitted writes; and the
\* final commit is made once, only when batch_count > 0, and leaves nothing
\* pending.
C14_BatchCommit ==
    /\ [](/\ Cardinality(Uncommitted) <= batch_size
          /\ (pc = "loop") => (/\ batch_count < batch_size
                               /\ Cardinality(Uncommitted) <= batch_count)
          /\ Returned => (committed = pending))
    /\ [][/\ pc = "loaded" =>
              (IF batch_count + 1 >= batch_size
               THEN /\ commits' = commits + 1
                    /\ (pc' = "loop") =>
                           (committed' = pending /\ batch_count' = 0)
               ELSE /\ commits' = commits
                    /\ batch_count' = batch_count + 1
                    /\ committed' = committed)
          /\ (pc = "loop" /\ pc' = "idle") =>
                commits' = commits + (IF batch_count > 0 THEN 1 ELSE 0)
          /\ batch_count' # batch_count =>
                pc \in {"loaded", "ls_except", "idle"}]_vars

\* C14 witness: the run of seven products has returned after one batch
\* commit and the final commit, and the last two products are committed
C14_Witness ==
    /\ SevenProducts /\ Returned
    /\ commits = 2
    /\ batch_count = 2
    /\ \A n \in {6, 7} : /\ loadLog[n].status = "loaded"
                          /\ loadLog[n].written.products # {}
                          /\ WritesOf(committed, n) = loadLog[n].written

\* the detail has an attribute whose attributeId is null
NullAttribute(detail) ==
    \E k \in 1..Len(detail.attributes) : detail.attributes[k].attributeId = NoneId

\* C15: a load never fails because of a coordinate or an amount that does
\* not parse: when no commit raises and the detail has no null attribute
\* code, the load of a product does not fail and no error is counted.
C15_MalformedNeverFatal ==
    failing_commits = {} =>
        /\ \A n \in Loads :
              ~NullAttribute(DetailOf(n)) => loadLog[n].status # "failed"
        /\ (Returned /\ \A n \in Loads : ~NullAttribute(DetailOf(n)))
              => stats.errors = Cardinality(NotFetched)

\* the address carries a latitude and a longitude
HasBoth(addr) ==
    Truthy(GetN(addr.geocodeGdaLatitude)) /\ Truthy(GetN(addr.geocodeGdaLongitude))

\* the coordinates the rule gives for an address list: those of the first
\* PHYSICAL address that carries both, else those of the first address
\* that carries both, else none
ExpectedCoordinates(addresses) ==
    LET physical == {k \in 1..Len(addresses) :
                        /\ GetN(addresses[k].addressType) = "PHYSICAL"
                        /\ HasBoth(addresses[k])}
        any == {k \in 1..Len(addresses) : HasBoth(addresses[k])}
        chosen == IF physical # {} THEN Min(physical)
                  ELSE IF any # {} THEN Min(any) ELSE 0
    IN  IF chosen = 0 THEN [lat |-> NoneV, lng |-> NoneV]
        ELSE [lat |-> Float(addresses[chosen].geocodeGdaLatitude),
              lng |-> Float(addresses[chosen].geocodeGdaLongitude)]

\* C16: the coordinates of every product row written are those the rule
\* gives for the address list of its detail: never a partial pair, never a
\* value of an address that lacks one of the two.
C16_CoordinateSelection ==
    \A id \in DOMAIN pending.products :
        LET row == pending.products[id]
            expected == ExpectedCoordinates(row.raw_source.addresses)
        IN  /\ row.latitude = expected.lat
            /\ row.longitude = expected.lng

\* the entries of a communication list that have a value
WithValue(comm_list) ==
    SelectSeq(comm_list, LAMBDA comm : comm.communicationDetail # <<>>)

\* the type code of an entry, upper case, empty when the key is absent
TypeCode(comm) ==
    Upper(IF comm.attributeIdCommunication = MissingCode THEN <<>>
          ELSE comm.attributeIdCommunication)

FamilyKinds(code) ==
    (IF Contains(code, <<"E", "M", "E", "N">>) THEN {"email"} ELSE {})
    \cup (IF \/ Contains(code, <<"P", "H", "N", "U", "M">>)
             \/ Contains(code, <<"P", "H", "O", "N", "E">>)
          THEN {"phone"} ELSE {})
    \cup (IF \/ Contains(code, <<"W", "E", "B", "A", "D", "D", "R">>)
             \/ Contains(code, <<"W", "E", "B", "S", "I", "T", "E">>)
          THEN {"website"} ELSE {})
    \cup (IF \/ Contains(code, <<"B", "O", "O", "K", "U", "R", "L">>)
             \/ Contains(code, <<"B", "O", "O", "K", "I", "N", "G">>)
          THEN {"booking"} ELSE {})

\* the kind the shape of a value gives: '@' in it, else the prefix http
\* (the scheme of http:// and https://), else phone
ShapeKind(value) ==
    IF Contains(value, <<"@">>) THEN "email"
    ELSE IF StartsWith(value, <<"h", "t", "t", "p">>) THEN "website"
    ELSE "phone"

C19_OneHero ==
    \A id \in DOMAIN pending.product_media :
        LET rows == pending.product_media[id].rows
        IN  rows # <<>> =>
              /\ rows[1].role = "hero"
              /\ rows[1].ordinal = 1
              /\ \A k \in 2..Len(rows) : rows[k].role = "gallery"

C21_OrderInsensitive ==
    (call.pc = "done" /\ call.change \in {"same", "reordered"})
        => call.hashes[1] = call.hashes[2]

\* C21: a product whose only field is a list of two objects that each hold
\* a list of two objects has been hashed, then hashed again with an inner
\* list in another order, and the digests are equal
C21_Witness ==
    /\ call.pc = "done"
    /\ call.change = "reordered"
    /\ Len(call.first.e) = 1
    /\ call.first.e[1] \in DeepLists
    /\ call.product.e[1].e[1] \notin {call.first.e[1].e[1], call.first.e[1].e[2]}
    /\ call.hashes[1] = call.hashes[2]

\* C22: two products that differ in the value of one scalar, at any depth,
\* have different canonical texts, hence different digests.
C22_ScalarChangeDetected ==
    (call.pc = "done" /\ call.change = "scalar")
        => call.hashes[1] # call.hashes[2]

\* C22: a product has been hashed before and after the change of a scalar
\* two lists and two objects deep
C22_Witness ==
    /\ call.pc = "done"
    /\ call.change = "scalar"
    /\ Len(call.first.e) = 1
    /\ call.first.e[1] \in DeepLists
    /\ call.hashes[1] # call.hashes[2]

\* C23: a product with a field present and empty and the same product
\* without that field have different digests.
C23_EmptyIsNotAbsent ==
    (call.pc = "done" /\ call.change = "dropped")
        => call.hashes[1] # call.hashes[2]

\* C23: a product with an empty string field has been hashed, then hashed
\* without the field
C23_Witness ==
    /\ call.pc = "done"
    /\ call.change = "dropped"
    /\ \E n \in 1..Len(call.first.e) :
          call.first.e[n] = JStr(<<>>) /\ call.product = WithoutItem(call.first, n)
    /\ call.hashes[1] # call.hashes[2]

C25_PhoneCanonical ==
    (call.function = "normalize_phone" /\ call.results # <<>>)
        => IF call.format = "invalid"
           THEN Len(DigitsOf(call.text)) < 9 /\ call.results[1] = NoneStr
           ELSE call.results[1] = <<"+", "6", "1">> \o call.number

\* C25: a number that begins with 61, written '(06) 1876 5432', has been
\* normalized to '+61' and its nine digits
C25_Witness ==
    /\ call.function = "normalize_phone"
    /\ call.format = "(02) 9876 5432"
    /\ StartsWith(call.number, <<"6", "1">>)
    /\ call.results = << <<"+", "6", "1">> \o call.number >>

\* the text has exactly one '@', with a character on each side
OneAt(text) ==
    /\ text # NoneStr
    /\ Cardinality({n \in 1..Len(text) : text[n] = "@"}) = 1
    /\ text[1] # "@"
    /\ text[Len(text)] # "@"

\* C26: normalize_email applied to what it returned returns the same; what
\* it returns is None or the text in lower case without the blanks at its
\* ends; it returns None for a text that has not exactly one '@' with a
\* character on each side.
C26_EmailIdempotent ==
    (call.function = "normalize_email" /\ Len(call.results) = 2)
        => LET once == call.results[1]
           IN  /\ call.results[2] = once
               /\ once # NoneStr
                    => /\ once = Lower(StripSeq(call.text))
                       /\ \A n \in 1..Len(once) : once[n] \notin {"A", "B"}
                       /\ once[1] # " "
                       /\ once[Len(once)] # " "
               /\ ~OneAt(call.text) => once = NoneStr

\* C26: ' B@a' has been normalized to 'b@a', and 'b@a' to itself
C26_Witness ==
    /\ call.function = "normalize_email"
    /\ call.text = <<" ", "B", "@", "a">>
    /\ call.results = << <<"b", "@", "a">>, <<"b", "@", "a">> >>

\* C27: extract_coordinates, given None or a text, returns without raising
\* either (None, None) or a pair with -45 <= lat <= -10 and
\* 110 <= lng <= 160; it returns the pair of a text 'lat,lng' inside that
\* box.
C27_CoordinatesInBox ==
    (call.function = "extract_coordinates" /\ call.results # <<>>)
        => LET got == call.results[1]
               lat == FloatOfTokens(<<call.text[1]>>)
               lng == FloatOfTokens(<<call.text[3]>>)
           IN  /\ got.kind \in {"pair", "none"}
               /\ got.kind = "pair"
                    => /\ -450 <= got.lat /\ got.lat <= -100
                       /\ 1100 <= got.lng /\ got.lng <= 1600
               /\ got.kind = "none" => got = NonePair
               /\ (/\ Len(call.text) = 3
                   /\ call.text[2] = ","
                   /\ call.text[1] \in {"-28.6", "-45", "-10"}
                   /\ call.text[3] \in {"153.6", "110", "160"})
                    => got = [kind |-> "pair", lat |-> lat.tenths,
                              lng |-> lng.tenths]

\* C27: '-28.6,153.6' has given the pair (-28.6, 153.6)
C27_Witness ==
    /\ call.function = "extract_coordinates"
    /\ call.text = <<"-28.6", ",", "153.6">>
    /\ call.results = <<[kind |-> "pair", lat |-> -286, lng |-> 1536]>>

\* the status of the last answer the client met (0: no response)
LastStatus == client.statuses[Len(client.statuses)]

\* C28: when _make_request raises on a transient error (a 429, or no
\* response within the time allowed), it has retried max_retries times,
\* sleeping before each retry.
C28_TransientRetried ==
    (client.pc = "except" /\ LastStatus \in {0, 429})
        => client.attempt = max_retries /\ Len(client.waits) = max_retries

\* C29: search_products and get_product return only when every response
\* they met was a 2xx or a 429: any other response has raised.
C29_FatalPropagated ==
    client.pc = "returned"
        => \A n \in 1..Len(client.statuses) :
              \/ client.statuses[n] = 429
              \/ 200 <= client.statuses[n] /\ client.statuses[n] < 300

\* C30: while the client sleeps for rate-limit backoff during a run of
\* load_state, no write of the loader's transaction is uncommitted
C30_NoWritesPendingAsleep ==
    (pc = "get_product" /\ client.pc = "sleep") => Uncommitted = {}

\* C38: normalize_phone applied to what it returned, when that is not
\* None, returns the same
C38_PhoneIdempotent ==
    (call.function = "normalize_phone" /\ Len(call.results) = 2)
        => call.results[2] = call.results[1]

\* the products of the first n answers, in order
RECURSIVE Collected(_, _)
Collected(answers, n) ==
    IF n = 0 THEN <<>> ELSE Collected(answers, n - 1) \o answers[n].products

\* the search ends after answer number n: an error, an empty page, a single
\* page asked for, the page limit reached, or as many products collected
\* as the answer's numberOfResults
EndsAfter(n) ==
    LET a == client.answers[n]
    IN  \/ a.kind # "response"
        \/ a.products = <<>>
        \/ ~client.paginate
        \/ client.max_pages # 0 /\ n >= client.max_pages
        \/ Len(Collected(client.answers, n)) >= a.numberOfResults

\* pages 1, 2, 3, ... were requested in order, each after an answer that
\* did not end the search; what is returned is the pages received, in order
SearchInOrder ==
    /\ client.requested = [n \in 1..Len(client.requested) |-> n]
    /\ \A n \in 1..Len(client.answers) :
          EndsAfter(n) => Len(client.requested) = n
    /\ client.pc = "returned" =>
          /\ EndsAfter(Len(client.answers))
          /\ client.all_results = Collected(client.answers, Len(client.answers))
    /\ client.pc = "loop" => client.all_results = Collected(client.answers, Len(client.answers))

\* C37: search_products requests pages 1, 2, 3, ... in order, requests no
\* page after an answer that ends the search (an empty page, paginate
\* false, max_pages reached, numberOfResults collected), returns the
\* concatenation of the pages received, and ends
C37_PagesInOrderUntilDone ==
    []SearchInOrder /\ <>(client.pc \in {"returned", "raised"})

\* C37: a search without page limit has returned the products of two pages
\* after the second answer reported as many results as were collected
C37_Witness ==
    /\ client.pc = "returned"
    /\ client.paginate
    /\ client.max_pages = 0
    /\ client.requested = <<1, 2>>
    /\ Len(client.all_results) = 3
    /\ client.answers[2].numberOfResults = 3

\* the (attribute-type code, attribute code) pair of an entry
SourcePair(attr) == <<attr.attributeTypeId, attr.attributeId>>

\* C36: two attribute entries with different (attribute-type code,
\* attribute code) pairs get different composite codes, hence two
\* definitions and two assignments
C36_CodeIsKey ==
    (call.pc = "done" /\ SourcePair(call.attributes[1]) # SourcePair(call.attributes[2]))
        => /\ call.codes[1] # call.codes[2]
           /\ Len(call.new_attributes) = 2
           /\ Len(call.attrs_dict) = 2

\* C34: with auto_accept, after a call of register_attributes that returned
\* (True), every composite code of its attribute list is in known_attributes
C34_ReturnedMeansKnown ==
    (auto_accept /\ call.pc = "idle" /\ call.calls > 0 /\ register_result = "True")
        => \A k \in 1..Len(call.attributes) :
              FullCode(call.attributes[k]) \in DOMAIN known_attributes

\* C35: no code is both in known_attributes and in unknown_attributes
C35_KnownUnknownDisjoint ==
    DOMAIN known_attributes \cap unknown_attributes = {}

\* C35: after a declined, an accepted and a failed registration there are
\* codes in known_attributes and codes in unknown_attributes
C35_Witness ==
    /\ ~auto_accept
    /\ call.calls = 3
    /\ call.failures = 1
    /\ known_attributes # EmptyFn
    /\ FullCode(AttrView) \in unknown_attributes
    /\ FullCode(AttrNull) \in unknown_attributes
    /\ FullCode(AttrPool) \in DOMAIN known_attributes
    /\ DOMAIN known_attributes \cap unknown_attributes = {}

\* the load in progress, 0 when none is
Loading == IF pc \in {"idle", "loop", "ls_except", "crashed"} THEN 0 ELSE load

\* load n is COMMITTED: the committed tables hold all its writes
IsCommitted(n) ==
    /\ loadLog[n].status = "loaded"
    /\ WritesOf(committed, n) = loadLog[n].written
    /\ WritesOf(committed, n).products # {}

\* load n is ROLLED_BACK: no table holds a write of it
IsRolledBack(n) ==
    /\ loadLog[n].status \in {"loaded", "failed"}
    /\ WritesOf(committed, n) = NoWrites
    /\ WritesOf(pending, n) = NoWrites

\* load n is STORED: it is complete and its writes are pending
IsStored(n) ==
    /\ loadLog[n].status = "loaded"
    /\ n \in Uncommitted
    /\ WritesOf(pending, n) = loadLog[n].written
    /\ WritesOf(committed, n) = NoWrites

\* C31: a product is FETCHED and has its attributes resolved before any of
\* its rows is written; a load that is over is STORED, COMMITTED or
\* ROLLED_BACK, exactly one of them; and when load_state has returned or
\* died every load is COMMITTED or ROLLED_BACK.
C31_ProductStates ==
    /\ \A n \in Loads :
          /\ loadLog[n].status = "loading" <=> n = Loading
          /\ (n = Loading /\ pc = "register") =>
                (WritesOf(pending, n) = NoWrites /\ WritesOf(committed, n) = NoWrites)
          /\ (n = Loading) => WritesOf(committed, n) = NoWrites
          /\ (n # Loading /\ pc # "ls_except") =>
                Cardinality({s \in {"STORED", "COMMITTED", "ROLLED_BACK"} :
                                \/ s = "STORED" /\ IsStored(n)
                                \/ s = "COMMITTED" /\ IsCommitted(n)
                                \/ s = "ROLLED_BACK" /\ IsRolledBack(n)}) = 1
    /\ (pc \in {"idle", "crashed"}) =>
          \A n \in Loads : IsCommitted(n) \/ IsRolledBack(n)

\* C31: load_state has returned after three loads: the first was stored and
\* rolled back with the second, which failed, and the third is committed
C31_Witness ==
    /\ Returned
    /\ Len(loadLog) = 3
    /\ loadLog[1].status = "loaded" /\ IsRolledBack(1)
    /\ loadLog[2].status = "failed" /\ IsRolledBack(2)
    /\ IsCommitted(3)

\* C32: at every product boundary batch_count is the number of loaded
\* products whose writes are uncommitted in the open transaction
C32_BatchCountIsPending ==
    (pc = "loop") => batch_count = Cardinality(Uncommitted)

\* C33: when load_state has returned from a run in which no load raised,
\* every product that was loaded is in the committed store, whatever
\* happened to the fetch of the other products
C33_FetchFailureIsolated ==
    (Returned /\ FailedLoads = {}) => \A n \in Loads : IsCommitted(n)
====
